---- MODULE Spec2Model ----
(***************************************************************************)
(* Verification model of the neutron-activation engine of IRFDatabase:     *)
(*   irradiation/activation.py  ActivationCalculator                        *)
(*   irradiation/views.py       calculate_sample_isotopics,                 *)
(*                              _save_activation_result                     *)
(*   irradiation/models.py      Sample, SampleComposition,                  *)
(*                              SampleIrradiationLog, FluxConfiguration,    *)
(*                              ActivationResult                            *)
(*                                                                         *)
(* Numbers.  The engine computes in floating point; the model computes in  *)
(* integers.  Atom counts are integers, fractions are parts per 100000,    *)
(* instants and durations are whole seconds, and exp(-ln2 * t / T) is the  *)
(* fixed-point operator Exp1000.  SHA-256 is collision free in the model:  *)
(* a fingerprint is the formatted hash string itself, kept as a structure. *)
(* The calculations run without PyNE, on the built-in table of the         *)
(* repository; the gamma energies are modelled with PyNE as well.          *)
(* radioactivedecay is absent, and the simplified decay model is used, or  *)
(* it is installed and its calls fail.                                     *)
(***************************************************************************)
EXTENDS Integers, Sequences, FiniteSets, TLC

VARIABLES
    sample,       \* the Sample row: mass, mass_unit, material_type, composition_elements
    logs,         \* the sample's SampleIrradiationLog rows, ordered by (irradiation_date, time_in)
    nextPk,       \* next primary key handed out to a SampleIrradiationLog
    fluxConfigs,  \* FluxConfiguration rows: location -> configuration
    store,        \* ActivationResult rows (the cache), in insertion order
    now,          \* timezone.now(), seconds
    events,       \* edits, ticks and requests so far
    calc,         \* per request: position and locals of the running calculation
    lastWrite,    \* the last cache write that committed: the request and its row
    prev,         \* the last edit or step: its kind, with what was before and after it
    radioactivedecay, \* the radioactivedecay library: "absent", or "fails" when called
    pyne              \* the PyNE library: "absent" or "present"

vars ==
    <<sample, logs, nextPk, fluxConfigs, store, now, events, calc, lastWrite, prev,
      radioactivedecay, pyne>>

-----------------------------------------------------------------------------
(* Bounds of the model *)

\* edits, ticks of the clock and requests in one run
MaxEvents == 4
\* irradiation logs of the sample
MaxLogs == 2

-----------------------------------------------------------------------------
(* Values the records are drawn from *)

None == "None"

\* SampleIrradiationLog.actual_location values (free text in historical data)
LogLocations == {"bare_rabbit", "BARE_RABBIT", "beam_port"}

\* FluxConfiguration.location values
ConfigLocations == {"bare_rabbit", "Bare_Rabbit"}

\* FluxConfiguration.Meta.ordering = ['location']: the order flux_configs is filled and iterated in
LocationOrder == <<"BARE_RABBIT", "Bare_Rabbit", "bare_rabbit", "beam_port">>

\* str.lower()
Lower(s) ==
    CASE s = "BARE_RABBIT" -> "bare_rabbit"
      [] s = "Bare_Rabbit" -> "bare_rabbit"
      [] OTHER -> s

\* str.strip().capitalize() of Sample.material_type
Capitalize(s) ==
    CASE s = "au" -> "Au"
      [] s = "gold" -> "Gold"
      [] OTHER -> s

DAY == 86400

\* seconds since the model's epoch of datetime.combine(date, time); dates are day
\* numbers and console times are seconds after midnight
Combine(date, time) == date * DAY + time

TimeUnits == {"sec", "min", "hr"}

-----------------------------------------------------------------------------
(* Built-in nuclear data *)

\* SIMPLE_CROSS_SECTIONS: target -> (abundance, sigma, product, half-life).
\* Abundance in parts per 100000, sigma in hundredths of a barn, half-life
\* in seconds (0 stands for 'stable').
SIMPLE_CROSS_SECTIONS ==
    [e \in {"Au", "Cu", "Fe"} |->
        CASE e = "Au" ->
               ("Au-197" :> [abundance |-> 100000, sigma |-> 9865, product |-> "Au-198", half_life |-> 232891])
          [] e = "Cu" ->
               ("Cu-63" :> [abundance |-> 69150, sigma |-> 450, product |-> "Cu-64", half_life |-> 45720]) @@
               ("Cu-65" :> [abundance |-> 30850, sigma |-> 217, product |-> "Cu-66", half_life |-> 307])
          [] e = "Fe" ->
               ("Fe-54" :> [abundance |-> 5845, sigma |-> 225, product |-> "Fe-55", half_life |-> 86152248]) @@
               ("Fe-56" :> [abundance |-> 91754, sigma |-> 259, product |-> "Fe-57", half_life |-> 0]) @@
               ("Fe-57" :> [abundance |-> 2119, sigma |-> 248, product |-> "Fe-58", half_life |-> 0]) @@
               ("Fe-58" :> [abundance |-> 282, sigma |-> 128, product |-> "Fe-59", half_life |-> 3845059])]

STABLE == 0

\* LAMBDA_LN2 = 0.693147..., in thousandths
LAMBDA_LN2 == 693

\* Avogadro's number 6.022e23, in units of 1e20
AVOGADRO == 6022

\* isotope.split('-')[0]
ElementOf(isotope) ==
    CASE isotope \in {"Au-197", "Au-198"} -> "Au"
      [] isotope \in {"Cu-63", "Cu-64", "Cu-65", "Cu-66"} -> "Cu"
      [] isotope \in {"Fe-54", "Fe-55", "Fe-56", "Fe-57", "Fe-58", "Fe-59"} -> "Fe"
      [] isotope = "Gold-Unknown" -> "Gold"
      [] OTHER -> "Xx"

\* int(isotope.split('-')[1]); 0 stands for the ValueError of an unparsable mass number
MassNumber(isotope) ==
    CASE isotope = "Au-197" -> 197 [] isotope = "Au-198" -> 198
      [] isotope = "Cu-63" -> 63 [] isotope = "Cu-64" -> 64
      [] isotope = "Cu-65" -> 65 [] isotope = "Cu-66" -> 66
      [] isotope = "Fe-54" -> 54 [] isotope = "Fe-55" -> 55
      [] isotope = "Fe-56" -> 56 [] isotope = "Fe-57" -> 57
      [] isotope = "Fe-58" -> 58 [] isotope = "Fe-59" -> 59
      [] OTHER -> 0

\* f"{element}-Unknown"
UnknownIsotope(element) == IF element = "Gold" THEN "Gold-Unknown" ELSE "Xx-Unknown"

\* _get_natural_isotopes without PyNE: {isotope: abundance fraction}, as a set of pairs
GetNaturalIsotopes(element) ==
    IF element \in DOMAIN SIMPLE_CROSS_SECTIONS
    THEN {<<iso, SIMPLE_CROSS_SECTIONS[element][iso].abundance>> :
              iso \in DOMAIN SIMPLE_CROSS_SECTIONS[element]}
    ELSE {<<UnknownIsotope(element), 100000>>}

\* _get_cross_section_data in one-group mode: (sigma, product, half-life) of a target
\* isotope of the table; found is FALSE for the None of an isotope that is not one
GetCrossSectionData(isotope) ==
    LET element == ElementOf(isotope) IN
    IF element \in DOMAIN SIMPLE_CROSS_SECTIONS /\ isotope \in DOMAIN SIMPLE_CROSS_SECTIONS[element]
    THEN LET data == SIMPLE_CROSS_SECTIONS[element][isotope]
         IN [found |-> TRUE, sigma |-> data.sigma, product |-> data.product,
             half_life |-> data.half_life]
    ELSE [found |-> FALSE, sigma |-> 0, product |-> "", half_life |-> STABLE]

\* _get_half_life without PyNE: the half-life of an isotope that is a product of the
\* table; STABLE both for 'stable' and for the None of an isotope that is no product
\* (_calculate_activities treats the two alike)
GetHalfLife(isotope) ==
    LET element == ElementOf(isotope) IN
    IF element \in DOMAIN SIMPLE_CROSS_SECTIONS
       /\ \E t \in DOMAIN SIMPLE_CROSS_SECTIONS[element] :
              SIMPLE_CROSS_SECTIONS[element][t].product = isotope
    THEN LET t == CHOOSE t \in DOMAIN SIMPLE_CROSS_SECTIONS[element] :
                      SIMPLE_CROSS_SECTIONS[element][t].product = isotope
         IN SIMPLE_CROSS_SECTIONS[element][t].half_life
    ELSE STABLE

-----------------------------------------------------------------------------
(* Composition resolver *)

\* SampleComposition rows a sample may hold: element, isotope ("" is natural
\* abundance), fraction in percent
CompositionEntries ==
    { [element |-> "Au", isotope |-> "", fraction |-> 100],
      [element |-> "Au", isotope |-> "", fraction |-> 50],
      [element |-> "Cu", isotope |-> "", fraction |-> 50],
      [element |-> "Fe", isotope |-> "58", fraction |-> 100] }

\* f"{element}-{isotope_part}"
IsotopeName(element, part) ==
    CASE element = "Au" /\ part = "197" -> "Au-197"
      [] element = "Fe" /\ part = "58" -> "Fe-58"
      [] OTHER -> UnknownIsotope(element)

\* the isotopes one composition row contributes: element_fraction times abundance
ResolveEntry(comp) ==
    IF comp.isotope \notin {"natural", "nat", ""}
    THEN {[element |-> comp.element,
           isotope |-> IsotopeName(comp.element, comp.isotope),
           fraction |-> comp.fraction * 1000]}
    ELSE {[element |-> comp.element, isotope |-> p[1],
           fraction |-> (comp.fraction * p[2]) \div 100] :
              p \in GetNaturalIsotopes(comp.element)}

\* _get_sample_composition: {element: {isotope: fraction}} as a set of
\* (element, isotope, fraction) records, from the composition rows when there
\* are any and else from the material type; empty when there is neither
GetSampleComposition(composition_elements, material_type) ==
    IF composition_elements # {}
    THEN UNION {ResolveEntry(comp) : comp \in composition_elements}
    ELSE IF material_type # ""
         THEN {[element |-> Capitalize(material_type), isotope |-> p[1], fraction |-> p[2]] :
                   p \in GetNaturalIsotopes(Capitalize(material_type))}
         ELSE {}

-----------------------------------------------------------------------------
(* Fingerprint *)

\* "if sample.mass": a mass that is set and not zero.  Sample.mass is the empty
\* set for NULL and {value} otherwise.
MassSet(smp) == \E v \in smp.mass : v # 0

MassValue(smp) == CHOOSE v \in smp.mass : TRUE

\* a fingerprint that leaves the mass out
HashWithoutMass(irradiation_logs, smp, composition) ==
    [version |-> "VERSION:3",
     composition |-> {<<c.isotope, c.fraction>> : c \in composition},
     mass |-> <<>>,
     logs |-> [i \in 1..Len(irradiation_logs) |->
                  LET log == irradiation_logs[i] IN
                  <<log.pk, log.actual_location, log.actual_power, log.total_time,
                    log.irradiation_date, log.time_in, log.time_out>>]]

\* generate_irradiation_hash: the hash string, whose parts are joined by "||":
\* the version, the composition strings "isotope:fraction" in sorted order, the
\* mass and its unit when the mass is set, and one part per log in the order
\* supplied.  composition is the sample's resolved composition.
GenerateIrradiationHash(irradiation_logs, smp, composition) ==
    [version |-> "VERSION:3",
     composition |-> {<<c.isotope, c.fraction>> : c \in composition},
     mass |-> IF MassSet(smp) THEN <<MassValue(smp), smp.mass_unit>> ELSE <<>>,
     logs |-> [i \in 1..Len(irradiation_logs) |->
                  LET log == irradiation_logs[i] IN
                  <<log.pk, log.actual_location, log.actual_power, log.total_time,
                    log.irradiation_date, log.time_in, log.time_out>>]]

-----------------------------------------------------------------------------
(* Inventory: a dict isotope -> atoms, kept as the sequence of its items in
   insertion order *)

\* the order in which composition isotopes are inserted (the table's order)
IsotopeOrder == <<"Au-197", "Cu-63", "Cu-65", "Fe-54", "Fe-56", "Fe-57", "Fe-58">>

Keys(inventory) == {inventory[i].isotope : i \in 1..Len(inventory)}

Get(inventory, isotope) ==
    LET i == CHOOSE i \in 1..Len(inventory) : inventory[i].isotope = isotope
    IN inventory[i].atoms

\* inventory[isotope] = atoms
Put(inventory, isotope, atoms) ==
    IF isotope \in Keys(inventory)
    THEN [i \in 1..Len(inventory) |->
             IF inventory[i].isotope = isotope
             THEN [isotope |-> isotope, atoms |-> atoms]
             ELSE inventory[i]]
    ELSE Append(inventory, [isotope |-> isotope, atoms |-> atoms])

\* the second of the two, whatever the first
Unclamped(a, b) == b

Max(a, b) == IF a >= b THEN a ELSE b

\* the sample mass in milligrams; 1 gram when the mass is not set
MassMilligrams(smp) ==
    IF MassSet(smp)
    THEN CASE smp.mass_unit = "mg" -> MassValue(smp)
           [] smp.mass_unit = "kg" -> MassValue(smp) * 1000000
           [] OTHER -> MassValue(smp) * 1000
    ELSE 1000

\* _initialize_inventory: atoms = mass * fraction * N_A / A for every isotope of
\* the composition whose mass number parses
InitializeInventory(composition, smp) ==
    LET present(iso) == \E c \in composition : c.isotope = iso
        fractionOf(iso) == (CHOOSE c \in composition : c.isotope = iso).fraction
        isos == SelectSeq(IsotopeOrder, present)
    IN [i \in 1..Len(isos) |->
           [isotope |-> isos[i],
            atoms |-> (((MassMilligrams(smp) * fractionOf(isos[i])) \div 1000) * AVOGADRO)
                          \div (MassNumber(isos[i]) * 1000)]]

\* 2^k for the number of whole half-lives
RECURSIVE Pow2(_)
Pow2(k) == IF k = 0 THEN 1 ELSE 2 * Pow2(k - 1)

\* 1000 * exp(-LAMBDA_LN2 / half_life * t): halved once per whole half-life and
\* interpolated linearly within one
Exp1000(t, half_life) ==
    LET k == t \div half_life
        r == t % half_life
        base == IF k >= 10 THEN 0 ELSE 1000 \div Pow2(k)
    IN base - (base * ((r * 1000) \div half_life)) \div 2000

\* _convert_to_seconds
ConvertToSeconds(value, unit) ==
    CASE unit = "sec" -> value
      [] unit = "min" -> value * 60
      [] unit = "hr" -> value * 3600
      [] OTHER -> value

\* atoms produced from n_atoms of a target in time_s at the given flux:
\* (R / lambda) * (1 - exp(-lambda t)) for a radioactive product and R * t for
\* a stable one, R = sigma * flux * n_atoms
Produced(xs, flux, n_atoms, time_s) ==
    IF xs.half_life # STABLE /\ xs.half_life > 0
    THEN (((n_atoms * ((xs.sigma * flux * (xs.half_life \div 1000)) \div LAMBDA_LN2)) \div 1000)
             * (1000 - Exp1000(time_s, xs.half_life))) \div 1000
    ELSE (n_atoms * ((xs.sigma * flux * time_s) \div 1000000)) \div 1000

\* one pass of the loop of _activate_inventory over the items of the old
\* inventory from position i on; new is new_inventory
RECURSIVE ActivateFrom(_, _, _, _, _)
ActivateFrom(inventory, new, i, flux, time_s) ==
    IF i > Len(inventory) THEN new
    ELSE LET target == inventory[i].isotope
             n_atoms == inventory[i].atoms
             xs == GetCrossSectionData(target)
         IN IF ~xs.found
            THEN ActivateFrom(inventory, new, i + 1, flux, time_s)
            ELSE LET n_produced == Produced(xs, flux, n_atoms, time_s)
                     added == IF xs.product \in Keys(new)
                              THEN Put(new, xs.product, Get(new, xs.product) + n_produced)
                              ELSE Put(new, xs.product, n_produced)
                     depleted == Put(added, target, Max(0, n_atoms - n_produced))
                 IN ActivateFrom(inventory, depleted, i + 1, flux, time_s)

\* _activate_inventory
ActivateInventory(inventory, flux, time_s) == ActivateFrom(inventory, inventory, 1, flux, time_s)

\* _decay_simple: each isotope found by _get_cross_section_data is reduced by the
\* half-life of that record; the others are carried unchanged
DecaySimple(inventory, time_s) ==
    [i \in 1..Len(inventory) |->
        LET xs == GetCrossSectionData(inventory[i].isotope) IN
        IF ~xs.found \/ xs.half_life = STABLE
        THEN inventory[i]
        ELSE [isotope |-> inventory[i].isotope,
              atoms |-> (inventory[i].atoms * Exp1000(time_s, xs.half_life)) \div 1000]]

\* the import of radioactivedecay succeeded
HAS_RADIOACTIVEDECAY == radioactivedecay # "absent"

\* _decay_inventory hands the inventory to _decay_with_rd when the library is
\* installed, and an exception of the library leaves both
DecayInventoryRaises == HAS_RADIOACTIVEDECAY /\ radioactivedecay = "fails"

\* _decay_inventory where it returns: the simplified model, without the library
DecayInventory(inventory, time_s) == DecaySimple(inventory, time_s)

-----------------------------------------------------------------------------
(* Activities and dose rate *)

\* the number of bequerels in a curie, 3.7e10, in the model's activity unit
CURIE == 37

\* dose rate per curie of an isotope without gamma data
FALLBACK_DOSE == 500

\* activity = lambda * N of one inventory item, lambda = LAMBDA_LN2 / half-life
ActivityOf(item) == (item.atoms * LAMBDA_LN2) \div (GetHalfLife(item.isotope) \div 100)

\* total_activity += activity_bq over the radioactive items
RECURSIVE TotalActivity(_)
TotalActivity(items) ==
    IF items = {} THEN 0
    ELSE LET it == CHOOSE it \in items : TRUE
         IN ActivityOf(it) + TotalActivity(items \ {it})

\* activities whose total is taken over the listed isotopes only
CalculateActivitiesListedTotal(inventory, min_fraction) ==
    LET items == {inventory[i] : i \in 1..Len(inventory)}
        active == {it \in items : it.atoms > 0 /\ GetHalfLife(it.isotope) # STABLE
                                               /\ ActivityOf(it) > 0}
        total == TotalActivity(active)
        listed == {a \in active : total > 0 /\ (ActivityOf(a) * 1000) \div total >= min_fraction}
    IN [isotopes |-> {[isotope |-> it.isotope, activity_bq |-> ActivityOf(it),
                       atoms |-> it.atoms, half_life_s |-> GetHalfLife(it.isotope),
                       fraction |-> (ActivityOf(it) * 1000) \div total] : it \in listed},
        stable_isotopes |-> {[isotope |-> it.isotope, atoms |-> it.atoms] :
                                it \in {i \in items : i.atoms > 0 /\ GetHalfLife(i.isotope) = STABLE}},
        total_activity_bq |-> TotalActivity(listed)]

\* _calculate_activities: the radioactive isotopes whose share of the total
\* activity is at least min_fraction (thousandths), the stable ones, and the
\* total over all radioactive isotopes
CalculateActivities(inventory, min_fraction) ==
    LET items == {inventory[i] : i \in 1..Len(inventory)}
        positive == {it \in items : it.atoms > 0}
        stable == {it \in positive : GetHalfLife(it.isotope) = STABLE}
        active == {it \in positive \ stable : ActivityOf(it) > 0}
        total == TotalActivity(active)
        fraction(it) == IF total > 0 THEN (ActivityOf(it) * 1000) \div total ELSE 0
    IN [isotopes |-> {[isotope |-> it.isotope, activity_bq |-> ActivityOf(it),
                       atoms |-> it.atoms, half_life_s |-> GetHalfLife(it.isotope),
                       fraction |-> fraction(it)] :
                          it \in {a \in active : fraction(a) >= min_fraction}},
        stable_isotopes |-> {[isotope |-> it.isotope, atoms |-> it.atoms] : it \in stable},
        total_activity_bq |-> total]

\* the factor of the "6 C E rule"
DOSE_CONSTANT == 6

\* the import of PyNE succeeded
HAS_PYNE == pyne # "absent"

\* the gamma lines PyNE holds for an isotope: energy in keV, intensity in
\* hundredths of a percent
GammaLines(isotope) ==
    CASE isotope = "Co-60" -> <<[energy_kev |-> 1173, intensity |-> 9985],
                                [energy_kev |-> 1332, intensity |-> 9998]>>
      [] isotope = "Cs-137" -> <<[energy_kev |-> 662, intensity |-> 8510]>>
      [] isotope = "Au-198" -> <<[energy_kev |-> 412, intensity |-> 9558],
                                 [energy_kev |-> 676, intensity |-> 84],
                                 [energy_kev |-> 1088, intensity |-> 17]>>
      [] OTHER -> <<>>

\* sum(inten[0] for inten in intensities), up to line i
RECURSIVE TotalIntensity(_, _)
TotalIntensity(lines, i) ==
    IF i = 0 THEN 0 ELSE lines[i].intensity + TotalIntensity(lines, i - 1)

\* sum(energies[i][0] * intensities[i][0]), up to line i
RECURSIVE WeightedEnergy(_, _)
WeightedEnergy(lines, i) ==
    IF i = 0 THEN 0
    ELSE lines[i].energy_kev * lines[i].intensity + WeightedEnergy(lines, i - 1)

\* _get_gamma_energies, in keV: 0 for the None returned without PyNE or
\* without lines, and else the average of the line energies weighted by the
\* intensities
GetGammaEnergies(isotope) ==
    LET lines == GammaLines(isotope)
        total_intensity == TotalIntensity(lines, Len(lines))
    IN IF ~HAS_PYNE \/ lines = <<>> \/ total_intensity <= 0
       THEN 0
       ELSE WeightedEnergy(lines, Len(lines)) \div total_intensity

\* the contribution of one isotope: the rule for a gamma energy, and the flat
\* estimate per curie when _get_gamma_energies returns None
DoseContribution(iso) ==
    LET gamma_energy_kev == GetGammaEnergies(iso.isotope)
    IN IF gamma_energy_kev > 0
       THEN (DOSE_CONSTANT * iso.activity_bq * gamma_energy_kev) \div (CURIE * 1000)
       ELSE (iso.activity_bq * FALLBACK_DOSE) \div CURIE

\* _estimate_dose_rate: total_dose_rate += dose_contribution over the isotopes
\* with a positive activity
RECURSIVE EstimateDoseRate(_)
EstimateDoseRate(isotopes) ==
    IF isotopes = {} THEN 0
    ELSE LET iso == CHOOSE iso \in isotopes : TRUE
         IN (IF iso.activity_bq <= 0 THEN 0 ELSE DoseContribution(iso))
                + EstimateDoseRate(isotopes \ {iso})

-----------------------------------------------------------------------------
(* Flux configurations *)

\* get_scaled_fluxes: configured flux times power / reference_power, and the
\* total flux _process_irradiation adds up from the three groups.  The caller
\* sees to the ZeroDivisionError of a reference power of zero.
GetScaledFluxes(config, power_kw) ==
    [thermal_flux |-> (config.thermal_flux * power_kw) \div config.reference_power,
     fast_flux |-> (config.fast_flux * power_kw) \div config.reference_power,
     intermediate_flux |-> (config.intermediate_flux * power_kw) \div config.reference_power]

TotalFlux(fluxes) == fluxes.thermal_flux + fluxes.fast_flux + fluxes.intermediate_flux

\* the keys of flux_configs equal to the location ignoring case, in the order
\* the dict is iterated
CaseInsensitiveKeys(flux_configs, location) ==
    SelectSeq(LocationOrder,
              LAMBDA k : k \in DOMAIN flux_configs /\ Lower(k) = Lower(location))

\* a lookup that falls back on the first configuration when none matches
MatchOrFirstConfig(flux_configs, location) ==
    IF location \in DOMAIN flux_configs THEN {location}
    ELSE IF CaseInsensitiveKeys(flux_configs, location) # <<>>
         THEN {Head(CaseInsensitiveKeys(flux_configs, location))}
         ELSE IF DOMAIN flux_configs # {}
              THEN {CHOOSE k \in DOMAIN flux_configs : TRUE}
              ELSE {}

\* the key of the flux configuration used for a location: flux_configs.get(location),
\* and failing that the first key equal to it ignoring case; empty when there is none
MatchFluxConfig(flux_configs, location) ==
    IF location \in DOMAIN flux_configs THEN {location}
    ELSE IF CaseInsensitiveKeys(flux_configs, location) # <<>>
         THEN {Head(CaseInsensitiveKeys(flux_configs, location))}
         ELSE {}

-----------------------------------------------------------------------------
(* Results *)

NoHash == [version |-> "", composition |-> {}, mass |-> <<>>, logs |-> <<>>]

\* the keys a result dict may carry
FreshFields ==
    {"isotopes", "stable_isotopes", "total_activity_bq", "reference_time",
     "end_of_irradiation_time", "decay_time_days", "irradiation_hash",
     "calculation_successful", "skipped_irradiations", "timeline",
     "estimated_dose_rate_1ft"}

CachedFields ==
    {"calculation_successful", "isotopes", "total_activity_bq", "reference_time",
     "irradiation_hash", "estimated_dose_rate_1ft", "from_cache"}

ErrorFields ==
    {"calculation_successful", "error_message", "isotopes", "total_activity_bq",
     "irradiation_hash"}

\* a result dict: fields is the set of its keys, and a key it does not carry
\* holds the value below
NoResult ==
    [fields |-> {}, calculation_successful |-> FALSE, error_message |-> "",
     isotopes |-> {}, stable_isotopes |-> {}, total_activity_bq |-> 0,
     reference_time |-> 0, end_of_irradiation_time |-> 0, decay_time_s |-> 0,
     irradiation_hash |-> NoHash, skipped_irradiations |-> <<>>, timeline |-> <<>>,
     estimated_dose_rate_1ft |-> 0, from_cache |-> FALSE, computed_from |-> <<>>,
     computed_with |-> <<>>]

\* what a result was computed from: the resolved composition, the mass and the
\* logs of the calculation.  It is no key of the dict and no column of the
\* row: it follows a result into the cache and out of it.
ComputedFrom(composition, smp, irradiation_logs) ==
    <<[composition |-> composition, mass |-> <<smp.mass, smp.mass_unit>>,
       logs |-> irradiation_logs]>>

\* the dict the except clause of calculate_activation returns
ErrorResult(message) ==
    [NoResult EXCEPT !.fields = ErrorFields, !.error_message = message]

\* the dict returned when every irradiation was skipped
AllSkippedResult(irr_hash, skipped) ==
    [NoResult EXCEPT !.fields = ErrorFields \cup {"skipped_irradiations"},
                     !.error_message = "All irradiations were skipped",
                     !.irradiation_hash = irr_hash,
                     !.skipped_irradiations = skipped]

\* the entry appended to skipped_irradiations for a log without flux configuration
SkippedEntry(log, flux_configs) ==
    [date |-> log.irradiation_date, location |-> log.actual_location,
     power |-> log.actual_power, time |-> log.total_time,
     time_unit |-> log.total_time_unit,
     reason |-> <<"No flux configuration for location", log.actual_location,
                  "Available", DOMAIN flux_configs>>]

TimelineEntry(step_number, step_type, step_datetime, inventory, log_pk, decay_time_s) ==
    [step_number |-> step_number, step_type |-> step_type,
     step_datetime |-> step_datetime, inventory |-> inventory,
     irradiation_log |-> log_pk, decay_time_seconds |-> decay_time_s]

-----------------------------------------------------------------------------
(* The sequencer, step by step *)

\* an irradiation processed without the decay over the gap before it
ProcessWithoutDecay(inventory, log, flux_config, previous_time) ==
    [inventory |-> ActivateInventory(inventory,
                       TotalFlux(GetScaledFluxes(flux_config, log.actual_power)),
                       ConvertToSeconds(log.total_time, log.total_time_unit)),
     end_time |-> Combine(log.irradiation_date, log.time_out)]

\* _process_irradiation: decay over the gap since previous_time when it is
\* positive, then activate for the declared duration at the scaled total flux;
\* returns the inventory and the end of the irradiation.  previous_time is the
\* empty set for None.
ProcessIrradiation(inventory, log, flux_config, previous_time) ==
    LET total_flux == TotalFlux(GetScaledFluxes(flux_config, log.actual_power))
        total_time_s == ConvertToSeconds(log.total_time, log.total_time_unit)
        irr_datetime == Combine(log.irradiation_date, log.time_in)
        irr_end_datetime == Combine(log.irradiation_date, log.time_out)
        decayed == IF previous_time # {}
                      /\ irr_datetime - (CHOOSE t \in previous_time : TRUE) > 0
                   THEN DecayInventory(inventory,
                                       irr_datetime - (CHOOSE t \in previous_time : TRUE))
                   ELSE inventory
    IN [inventory |-> ActivateInventory(decayed, total_flux, total_time_s),
        end_time |-> irr_end_datetime]

\* a decay entry before every processed log, the first one included
DecayEntriesBeforeEvery(track_timeline, inventory, log, reference_time, step_number) ==
    IF track_timeline
    THEN <<TimelineEntry(step_number, "decay",
                         Combine(log.irradiation_date, log.time_in) - 1, inventory, 0, 0)>>
    ELSE <<>>

\* the timeline entries the loop of calculate_activation appends before it
\* processes a log: a decay entry when a previous irradiation exists and the gap
\* to this one is positive
DecayEntries(track_timeline, inventory, log, reference_time, step_number) ==
    LET irr_start == Combine(log.irradiation_date, log.time_in)
        decay_time_s == irr_start - (CHOOSE t \in reference_time : TRUE)
    IN IF track_timeline /\ reference_time # {} /\ decay_time_s > 0
       THEN <<TimelineEntry(step_number, "decay", irr_start - 1,
                            DecayInventory(inventory, decay_time_s), 0, decay_time_s)>>
       ELSE <<>>

\* a result that reports the signed time from the end of the last irradiation
\* to current_date
FreshResultSignedDecay(inventory, reference_time, current_date, min_fraction, irr_hash, skipped, timeline) ==
    LET later == current_date > reference_time
        current_inventory == IF later
                             THEN DecayInventory(inventory, current_date - reference_time)
                             ELSE inventory
        activities == CalculateActivities(current_inventory, min_fraction)
    IN [NoResult EXCEPT
           !.fields = FreshFields,
           !.calculation_successful = TRUE,
           !.isotopes = activities.isotopes,
           !.stable_isotopes = activities.stable_isotopes,
           !.total_activity_bq = activities.total_activity_bq,
           !.reference_time = IF later THEN current_date ELSE reference_time,
           !.end_of_irradiation_time = reference_time,
           !.decay_time_s = current_date - reference_time,
           !.irradiation_hash = irr_hash,
           !.skipped_irradiations = skipped,
           !.timeline = timeline,
           !.estimated_dose_rate_1ft = EstimateDoseRate(activities.isotopes)]

\* the successful result of calculate_activation: the inventory decayed from
\* the end of the last irradiation to current_date when current_date is later,
\* and the inventory as it is otherwise
FreshResult(inventory, reference_time, current_date, min_fraction, irr_hash, skipped, timeline) ==
    LET later == current_date > reference_time
        decay_to_current_s == IF later THEN current_date - reference_time ELSE 0
        current_inventory == IF later
                             THEN DecayInventory(inventory, decay_to_current_s)
                             ELSE inventory
        activities == CalculateActivities(current_inventory, min_fraction)
    IN [NoResult EXCEPT
           !.fields = FreshFields,
           !.calculation_successful = TRUE,
           !.isotopes = activities.isotopes,
           !.stable_isotopes = activities.stable_isotopes,
           !.total_activity_bq = activities.total_activity_bq,
           !.reference_time = IF later THEN current_date ELSE reference_time,
           !.end_of_irradiation_time = reference_time,
           !.decay_time_s = decay_to_current_s,
           !.irradiation_hash = irr_hash,
           !.skipped_irradiations = skipped,
           !.timeline = timeline,
           !.estimated_dose_rate_1ft = EstimateDoseRate(activities.isotopes)]

\* a current entry numbered like the entry before it
CurrentEntriesRenumbered(track_timeline, inventory, reference_time, current_date, step_number) ==
    IF track_timeline /\ current_date > reference_time
    THEN <<TimelineEntry(step_number - 1, "current", current_date,
                         DecayInventory(inventory, current_date - reference_time), 0,
                         current_date - reference_time)>>
    ELSE <<>>

\* the timeline entry for the current date, appended when the timeline is
\* tracked and current_date is after the end of the last irradiation
CurrentEntries(track_timeline, inventory, reference_time, current_date, step_number) ==
    IF track_timeline /\ current_date > reference_time
    THEN <<TimelineEntry(step_number, "current", current_date,
                         DecayInventory(inventory, current_date - reference_time), 0,
                         current_date - reference_time)>>
    ELSE <<>>

-----------------------------------------------------------------------------
\* what a result was computed with: for each log the flux configuration that
\* matched its location (none for a skipped log), the cross-section mode and
\* the minimum activity fraction.  Like computed_from it is no key of the dict
\* and no column of the row.
ComputedWith(irradiation_logs, flux_configs, use_multigroup, min_fraction) ==
    <<[flux |-> [i \in 1..Len(irradiation_logs) |->
                    {flux_configs[k] :
                         k \in MatchFluxConfig(flux_configs,
                                               irradiation_logs[i].actual_location)}],
       use_multigroup |-> use_multigroup,
       min_fraction |-> min_fraction]>>

(* The cache *)

\* the ActivationResult rows of the sample with the given irradiation_hash
RowsWithHash(rows, irr_hash) ==
    {i \in 1..Len(rows) : rows[i].irradiation_hash = irr_hash}

\* the dict _get_cached_result builds from a row
CachedResult(row, irr_hash) ==
    [NoResult EXCEPT
        !.fields = CachedFields,
        !.calculation_successful = TRUE,
        !.isotopes = row.isotopic_inventory,
        !.total_activity_bq = row.total_activity_bq,
        !.reference_time = row.reference_time,
        !.irradiation_hash = irr_hash,
        !.estimated_dose_rate_1ft = row.estimated_dose_rate_1ft,
        !.from_cache = TRUE,
        !.computed_from = row.computed_from,
        !.computed_with = row.computed_with]

\* the row _save_activation_result writes: the key and the defaults of
\* update_or_create
ResultRow(results, use_multigroup) ==
    [irradiation_hash |-> results.irradiation_hash,
     reference_time |-> results.reference_time,
     total_activity_bq |-> results.total_activity_bq,
     estimated_dose_rate_1ft |-> results.estimated_dose_rate_1ft,
     isotopic_inventory |-> results.isotopes,
     calculation_method |-> IF use_multigroup THEN "multi-group" ELSE "one-group",
     number_of_isotopes |-> Cardinality(results.isotopes),
     calculation_successful |-> TRUE,
     error_message |-> "",
     computed_from |-> results.computed_from,
     computed_with |-> results.computed_with]

-----------------------------------------------------------------------------
(* State *)

HOUR == 3600

\* the requests that may run at once
NumProcs == 2

Procs == 1..NumProcs

\* the locals of a request that is not running
Idle ==
    [pc |-> "idle", op |-> "", smp |-> [mass |-> {}, mass_unit |-> "", material_type |-> "",
                                        composition_elements |-> {}],
     flux_configs |-> <<>>, use_cache |-> FALSE, use_multigroup |-> FALSE,
     track_timeline |-> FALSE, min_fraction |-> 0, target_date |-> 0,
     target_aware |-> TRUE,
     irradiation_logs |-> <<>>, irr_hash |-> NoHash, hashed_composition |-> {},
     composition |-> {}, inventory |-> <<>>, reference_time |-> {}, idx |-> 0,
     visited |-> <<>>, skipped |-> <<>>, timeline |-> <<>>, step_number |-> 0,
     ran |-> {}, current_date |-> {}, results |-> NoResult,
     response |-> [success |-> FALSE, status |-> 0, from_cache |-> FALSE,
                   decay_time_seconds |-> 0, last_irradiation_date |-> 0,
                   total_activity_bq |-> 0, inventory |-> <<>>, raised |-> ""]]

NoResponse == Idle.response

\* logs.order_by('irradiation_date', 'time_in'); rows that tie keep primary-key order
Before(a, b) ==
    \/ a.irradiation_date < b.irradiation_date
    \/ a.irradiation_date = b.irradiation_date /\ a.time_in < b.time_in
    \/ a.irradiation_date = b.irradiation_date /\ a.time_in = b.time_in /\ a.pk < b.pk

RECURSIVE OrderBy(_)
OrderBy(rows) ==
    IF rows = {} THEN <<>>
    ELSE LET first == CHOOSE r \in rows : \A o \in rows \ {r} : Before(r, o)
         IN <<first>> \o OrderBy(rows \ {first})

Rows(seq) == {seq[i] : i \in 1..Len(seq)}

Init ==
    /\ sample = [mass |-> {1}, mass_unit |-> "g", material_type |-> "",
                 composition_elements |-> {[element |-> "Au", isotope |-> "", fraction |-> 100]}]
    /\ logs = <<[pk |-> 1, actual_location |-> "bare_rabbit", actual_power |-> 2,
                 total_time |-> 1, total_time_unit |-> "hr", irradiation_date |-> 0,
                 time_in |-> 9 * HOUR, time_out |-> 10 * HOUR]>>
    /\ nextPk = 2
    /\ fluxConfigs = ("bare_rabbit" :> [reference_power |-> 2, thermal_flux |-> 1,
                                        fast_flux |-> 1, intermediate_flux |-> 0])
    /\ store = <<>>
    /\ now = 12 * HOUR
    /\ events = 0
    /\ calc = [p \in Procs |-> Idle]
    /\ lastWrite = <<>>
    /\ prev = <<>>
    /\ radioactivedecay = "absent"
    /\ pyne = "absent"

-----------------------------------------------------------------------------
(* The record-keeping system: edits of the sample, its logs and the flux
   configurations, and the passing of time *)

CompositionChoices ==
    { {},
      {[element |-> "Au", isotope |-> "", fraction |-> 100]},
      {[element |-> "Au", isotope |-> "", fraction |-> 50],
       [element |-> "Cu", isotope |-> "", fraction |-> 50]} }

FluxChoices ==
    { [reference_power |-> 2, thermal_flux |-> 1, fast_flux |-> 1, intermediate_flux |-> 0],
      [reference_power |-> 2, thermal_flux |-> 2, fast_flux |-> 1, intermediate_flux |-> 0],
      [reference_power |-> 0, thermal_flux |-> 1, fast_flux |-> 1, intermediate_flux |-> 0] }

CanAct == events < MaxEvents

\* a composition row is added, changed or deleted
EditComposition(c) ==
    /\ CanAct
    /\ c # sample.composition_elements
    /\ sample' = [sample EXCEPT !.composition_elements = c]
    /\ events' = events + 1
    /\ UNCHANGED <<logs, nextPk, fluxConfigs, store, now, calc, lastWrite, prev, radioactivedecay, pyne>>

\* an irradiation log is entered for the sample
AddLog(location, date, time_in, time_out) ==
    /\ CanAct
    /\ Len(logs) < MaxLogs
    /\ logs' = OrderBy(Rows(logs) \cup
                 {[pk |-> nextPk, actual_location |-> location, actual_power |-> 2,
                   total_time |-> 1, total_time_unit |-> "hr", irradiation_date |-> date,
                   time_in |-> time_in, time_out |-> time_out]})
    /\ nextPk' = nextPk + 1
    /\ events' = events + 1
    /\ UNCHANGED <<sample, fluxConfigs, store, now, calc, lastWrite, prev, radioactivedecay, pyne>>

\* a log's location, power or duration unit is corrected
EditLog(i, location, power, unit) ==
    /\ CanAct
    /\ i \in 1..Len(logs)
    /\ <<location, power, unit>> #
           <<logs[i].actual_location, logs[i].actual_power, logs[i].total_time_unit>>
    /\ logs' = [logs EXCEPT ![i] = [@ EXCEPT !.actual_location = location,
                                              !.actual_power = power,
                                              !.total_time_unit = unit]]
    /\ events' = events + 1
    /\ UNCHANGED <<sample, nextPk, fluxConfigs, store, now, calc, lastWrite, prev, radioactivedecay, pyne>>

\* a log is deleted
RemoveLog(i) ==
    /\ CanAct
    /\ i \in 1..Len(logs)
    /\ logs' = OrderBy(Rows(logs) \ {logs[i]})
    /\ events' = events + 1
    /\ UNCHANGED <<sample, nextPk, fluxConfigs, store, now, calc, lastWrite, prev, radioactivedecay, pyne>>

\* a flux configuration is created or changed in the admin
SetFluxConfig(location, config) ==
    /\ CanAct
    /\ location \in ConfigLocations
    /\ location \in DOMAIN fluxConfigs => fluxConfigs[location] # config
    /\ fluxConfigs' = [k \in DOMAIN fluxConfigs \cup {location} |->
                          IF k = location THEN config ELSE fluxConfigs[k]]
    /\ events' = events + 1
    /\ UNCHANGED <<sample, logs, nextPk, store, now, calc, lastWrite, prev, radioactivedecay, pyne>>

\* a flux configuration is deleted in the admin
DeleteFluxConfig(location) ==
    /\ CanAct
    /\ location \in DOMAIN fluxConfigs
    /\ fluxConfigs' = [k \in DOMAIN fluxConfigs \ {location} |-> fluxConfigs[k]]
    /\ events' = events + 1
    /\ UNCHANGED <<sample, logs, nextPk, store, now, calc, lastWrite, prev, radioactivedecay, pyne>>

\* a day passes
Tick ==
    /\ CanAct
    /\ now' = now + DAY
    /\ events' = events + 1
    /\ UNCHANGED <<sample, logs, nextPk, fluxConfigs, store, calc, lastWrite, prev, radioactivedecay, pyne>>

-----------------------------------------------------------------------------
(* A request: calculate_sample_isotopics, or a call of decay_to_date *)

EnvUnchanged == UNCHANGED <<sample, logs, nextPk, fluxConfigs, now, events, prev, radioactivedecay, pyne>>

\* a request arrives: one more event of the run
Arrives ==
    /\ CanAct
    /\ events' = events + 1
    /\ UNCHANGED <<sample, logs, nextPk, fluxConfigs, now, prev, radioactivedecay, pyne>>

\* calculate_sample_isotopics up to the call of calculate_activation: the
\* sample is loaded, and the request is refused when the sample has no logs or
\* there is no flux configuration
StartView(p, use_cache) ==
    /\ calc[p].pc = "idle"
    /\ IF logs = <<>> \/ DOMAIN fluxConfigs = {}
       THEN calc' = [calc EXCEPT ![p] =
                [Idle EXCEPT !.pc = "done", !.op = "view",
                             !.response = [NoResponse EXCEPT !.status = 400]]]
       ELSE calc' = [calc EXCEPT ![p] =
                [Idle EXCEPT !.pc = "hash", !.op = "view", !.smp = sample,
                             !.flux_configs = fluxConfigs, !.use_cache = use_cache,
                             !.use_multigroup = TRUE,
                             !.track_timeline = TRUE, !.min_fraction = 1]]
    /\ UNCHANGED <<store, lastWrite>>
    /\ Arrives

\* decay_to_date up to its call of calculate_activation, which runs without
\* the cache and without the timeline; with no events given it orders the
\* sample's events by 'irradiation_datetime', which is no field of an event,
\* and the FieldError leaves decay_to_date, which catches nothing
StartDecayToDate(p, target_date, target_aware, logs_given, min_activity_fraction) ==
    /\ calc[p].pc = "idle"
    /\ LET called == [Idle EXCEPT !.op = "decay_to_date", !.target_date = target_date,
                                  !.target_aware = target_aware]
       IN IF ~logs_given
          THEN calc' = [calc EXCEPT ![p] =
                   [called EXCEPT !.pc = "done",
                                  !.response = [NoResponse EXCEPT !.raised = "FieldError"]]]
          ELSE IF logs = <<>>
          THEN calc' = [calc EXCEPT ![p] = [called EXCEPT !.pc = "done"]]
          ELSE calc' = [calc EXCEPT ![p] =
                   [called EXCEPT !.pc = "hash", !.smp = sample,
                                  !.flux_configs = fluxConfigs, !.use_cache = FALSE,
                                  !.track_timeline = FALSE,
                                  !.min_fraction = min_activity_fraction]]
    /\ UNCHANGED <<store, lastWrite>>
    /\ Arrives

\* a fingerprint step that builds the inventory as well, before the cache is
\* looked up
HashAfterInventory(p) ==
    /\ calc[p].pc = "hash"
    /\ LET composition == GetSampleComposition(sample.composition_elements,
                                               calc[p].smp.material_type)
       IN calc' = [calc EXCEPT ![p] =
              [@ EXCEPT !.pc = IF calc[p].use_cache THEN "lookup" ELSE "compose",
                        !.irradiation_logs = logs,
                        !.hashed_composition = composition,
                        !.irr_hash = GenerateIrradiationHash(logs, calc[p].smp, composition),
                        !.inventory = InitializeInventory(composition, calc[p].smp),
                        !.ran = @ \cup {"composition", "inventory"}]]
    /\ UNCHANGED <<store, lastWrite>>
    /\ EnvUnchanged

\* calculate_activation, the fingerprint: the logs are read, the composition is
\* resolved and the hash is taken
HashStep(p) ==
    /\ calc[p].pc = "hash"
    /\ LET composition == GetSampleComposition(sample.composition_elements,
                                               calc[p].smp.material_type)
       IN calc' = [calc EXCEPT ![p] =
              [@ EXCEPT !.pc = IF calc[p].use_cache THEN "lookup" ELSE "compose",
                        !.irradiation_logs = logs,
                        !.hashed_composition = composition,
                        !.irr_hash = GenerateIrradiationHash(logs, calc[p].smp, composition),
                        !.ran = @ \cup {"composition"}]]
    /\ UNCHANGED <<store, lastWrite>>
    /\ EnvUnchanged

\* _get_cached_result: the result built from the row of this sample and hash
\* when there is one and it is successful; empty for None
GetCachedResult(rows, irr_hash) ==
    LET found == RowsWithHash(rows, irr_hash) IN
    IF found # {} /\ rows[CHOOSE i \in found : TRUE].calculation_successful
    THEN {CachedResult(rows[CHOOSE i \in found : TRUE], irr_hash)}
    ELSE {}

\* calculate_activation, the cache lookup: a hit is returned at once; objects.get
\* raises MultipleObjectsReturned when two rows hold the key
LookupStep(p) ==
    /\ calc[p].pc = "lookup"
    /\ LET cached == GetCachedResult(store, calc[p].irr_hash) IN
       IF Cardinality(RowsWithHash(store, calc[p].irr_hash)) > 1
       THEN calc' = [calc EXCEPT ![p] =
                [@ EXCEPT !.pc = "returned",
                          !.results = ErrorResult("MultipleObjectsReturned")]]
       ELSE IF cached # {}
            THEN calc' = [calc EXCEPT ![p] =
                     [@ EXCEPT !.pc = "returned",
                               !.results = CHOOSE r \in cached : TRUE]]
            ELSE calc' = [calc EXCEPT ![p] = [@ EXCEPT !.pc = "compose"]]
    /\ UNCHANGED <<store, lastWrite>>
    /\ EnvUnchanged

\* calculate_activation from the composition to the start of the loop: the
\* composition is resolved again, the inventory is built and the initial
\* timeline entry is made; no composition is a ValueError
ComposeStep(p) ==
    /\ calc[p].pc = "compose"
    /\ LET composition == GetSampleComposition(sample.composition_elements,
                                               calc[p].smp.material_type)
           inventory == InitializeInventory(composition, calc[p].smp)
           first == calc[p].irradiation_logs[1]
           initial == IF calc[p].track_timeline /\ Len(calc[p].irradiation_logs) > 0
                      THEN <<TimelineEntry(0, "initial",
                                 Combine(first.irradiation_date, first.time_in) - DAY,
                                 inventory, 0, 0)>>
                      ELSE <<>>
       IN IF composition = {}
          THEN calc' = [calc EXCEPT ![p] =
                   [@ EXCEPT !.pc = "returned",
                             !.ran = @ \cup {"composition"},
                             !.results = ErrorResult("No composition defined for sample")]]
          ELSE calc' = [calc EXCEPT ![p] =
                   [@ EXCEPT !.pc = "loop", !.composition = composition,
                             !.inventory = inventory, !.timeline = initial,
                             !.step_number = Len(initial), !.idx = 1,
                             !.ran = @ \cup {"composition", "inventory"}]]
    /\ UNCHANGED <<store, lastWrite>>
    /\ EnvUnchanged

\* one pass of the loop over the logs: the log is skipped when no flux
\* configuration matches its location, and processed otherwise
LoopStep(p) ==
    /\ calc[p].pc = "loop"
    /\ calc[p].idx <= Len(calc[p].irradiation_logs)
    /\ LET c == calc[p]
           log == c.irradiation_logs[c.idx]
           match == MatchFluxConfig(c.flux_configs, log.actual_location)
           flux_config == c.flux_configs[CHOOSE k \in match : TRUE]
           decay == DecayEntries(c.track_timeline, c.inventory, log, c.reference_time,
                                 c.step_number)
           done == ProcessIrradiation(c.inventory, log, flux_config, c.reference_time)
           gap == /\ c.reference_time # {}
                  /\ Combine(log.irradiation_date, log.time_in)
                         > (CHOOSE t \in c.reference_time : TRUE)
           after == IF c.track_timeline
                    THEN <<TimelineEntry(c.step_number + Len(decay), "irradiation",
                                         done.end_time, done.inventory, log.pk, 0)>>
                    ELSE <<>>
       IN IF match = {}
          THEN calc' = [calc EXCEPT ![p] =
                   [@ EXCEPT !.skipped = Append(@, SkippedEntry(log, c.flux_configs)),
                             !.visited = Append(@, "skipped"),
                             !.idx = @ + 1]]
          ELSE IF c.track_timeline /\ gap /\ DecayInventoryRaises
               THEN calc' = [calc EXCEPT ![p] =
                        [@ EXCEPT !.pc = "returned",
                                  !.ran = @ \cup {"decay"},
                                  !.results = ErrorResult("radioactivedecay")]]
          ELSE IF flux_config.reference_power = 0
               THEN calc' = [calc EXCEPT ![p] =
                        [@ EXCEPT !.pc = "returned",
                                  !.ran = @ \cup {"flux"},
                                  !.results = ErrorResult("float division by zero")]]
          ELSE IF gap /\ DecayInventoryRaises
               THEN calc' = [calc EXCEPT ![p] =
                        [@ EXCEPT !.pc = "returned",
                                  !.ran = @ \cup {"flux", "decay"},
                                  !.results = ErrorResult("radioactivedecay")]]
               ELSE calc' = [calc EXCEPT ![p] =
                        [@ EXCEPT !.inventory = done.inventory,
                                  !.reference_time = {done.end_time},
                                  !.timeline = @ \o decay \o after,
                                  !.step_number = @ + Len(decay) + Len(after),
                                  !.visited = Append(@, "processed"),
                                  !.idx = @ + 1,
                                  !.ran = @ \cup {"flux", "activation", "sequencing"}
                                              \cup (IF c.reference_time # {}
                                                    THEN {"decay"} ELSE {})]]
    /\ UNCHANGED <<store, lastWrite>>
    /\ EnvUnchanged

\* calculate_activation after the loop: the failure when every log was
\* skipped, and else the result at the current date
FinalStep(p) ==
    /\ calc[p].pc = "loop"
    /\ calc[p].idx > Len(calc[p].irradiation_logs)
    /\ LET c == calc[p]
           reference_time == CHOOSE t \in c.reference_time : TRUE
           current == CurrentEntries(c.track_timeline, c.inventory, reference_time, now,
                                     c.step_number)
       IN IF c.reference_time = {}
          THEN calc' = [calc EXCEPT ![p] =
                   [@ EXCEPT !.pc = "returned",
                             !.results = AllSkippedResult(c.irr_hash, c.skipped)]]
          ELSE IF now > reference_time /\ DecayInventoryRaises
          THEN calc' = [calc EXCEPT ![p] =
                   [@ EXCEPT !.pc = "returned",
                             !.ran = @ \cup {"decay"},
                             !.current_date = {now},
                             !.results = ErrorResult("radioactivedecay")]]
          ELSE calc' = [calc EXCEPT ![p] =
                   [@ EXCEPT !.pc = "returned",
                             !.timeline = @ \o current,
                             !.ran = @ \cup {"activity", "dose"}
                                         \cup (IF now > reference_time THEN {"decay"} ELSE {}),
                             !.current_date = {now},
                             !.results =
                                 [FreshResult(c.inventory, reference_time, now,
                                              c.min_fraction, c.irr_hash, c.skipped,
                                              c.timeline \o current)
                                  EXCEPT !.computed_from =
                                             ComputedFrom(c.composition, c.smp,
                                                          c.irradiation_logs),
                                         !.computed_with =
                                             ComputedWith(c.irradiation_logs, c.flux_configs,
                                                          c.use_multigroup,
                                                          c.min_fraction)]]]
    /\ UNCHANGED <<store, lastWrite>>
    /\ EnvUnchanged

-----------------------------------------------------------------------------
(* calculate_sample_isotopics after calculate_activation returned *)

\* the view's branch on the result: a failure is answered with status 500, a
\* fresh result is saved, a cached one is answered at once
ViewCheck(p) ==
    /\ calc[p].pc = "returned"
    /\ calc[p].op = "view"
    /\ LET r == calc[p].results IN
       calc' = [calc EXCEPT ![p] =
           IF ~r.calculation_successful
           THEN [@ EXCEPT !.pc = "done", !.response = [NoResponse EXCEPT !.status = 500]]
           ELSE IF ~r.from_cache
                THEN [@ EXCEPT !.pc = "save_get"]
                ELSE [@ EXCEPT !.pc = "respond"]]
    /\ UNCHANGED <<store, lastWrite>>
    /\ EnvUnchanged

\* a table without the unique constraint
KeyNeverTaken(rows, irr_hash) == FALSE

\* unique_together = ['sample', 'irradiation_hash']: whether an insert of a row
\* with this hash violates the constraint
KeyTaken(rows, irr_hash) == RowsWithHash(rows, irr_hash) # {}

\* update_or_create, the lookup by (sample, irradiation_hash); two rows with
\* the key raise MultipleObjectsReturned, which _save_activation_result logs
SaveGet(p) ==
    /\ calc[p].pc = "save_get"
    /\ LET found == RowsWithHash(store, calc[p].results.irradiation_hash) IN
       calc' = [calc EXCEPT ![p] =
           [@ EXCEPT !.pc = IF Cardinality(found) > 1 THEN "respond"
                            ELSE IF found # {} THEN "save_update"
                            ELSE "save_create"]]
    /\ UNCHANGED <<store, lastWrite>>
    /\ EnvUnchanged

\* update_or_create, the insert after a lookup that found nothing; when a
\* row with the key was inserted meanwhile the insert fails on the constraint
\* and the row is fetched and updated instead
SaveCreate(p) ==
    /\ calc[p].pc = "save_create"
    /\ LET row == ResultRow(calc[p].results, calc[p].use_multigroup) IN
       IF KeyTaken(store, row.irradiation_hash)
       THEN /\ calc' = [calc EXCEPT ![p] = [@ EXCEPT !.pc = "save_get"]]
            /\ UNCHANGED <<store, lastWrite>>
       ELSE /\ store' = Append(store, row)
            /\ lastWrite' = <<[by |-> p, row |-> row]>>
            /\ calc' = [calc EXCEPT ![p] = [@ EXCEPT !.pc = "respond"]]
    /\ EnvUnchanged

\* an update that gives the defaults to every row of the sample
UpdatedAllRows(rows, row) == [i \in 1..Len(rows) |-> row]

\* the rows after the update of update_or_create: the row with the key takes
\* the defaults
UpdatedRows(rows, row) ==
    [i \in 1..Len(rows) |->
        IF rows[i].irradiation_hash = row.irradiation_hash THEN row ELSE rows[i]]

\* update_or_create, the update of the row found
SaveUpdate(p) ==
    /\ calc[p].pc = "save_update"
    /\ LET row == ResultRow(calc[p].results, calc[p].use_multigroup) IN
       /\ store' = UpdatedRows(store, row)
       /\ lastWrite' = <<[by |-> p, row |-> row]>>
    /\ calc' = [calc EXCEPT ![p] = [@ EXCEPT !.pc = "respond"]]
    /\ EnvUnchanged

\* the JSON response of a successful request
Respond(p) ==
    /\ calc[p].pc = "respond"
    /\ LET r == calc[p].results IN
       calc' = [calc EXCEPT ![p] =
           [@ EXCEPT !.pc = "done",
                     !.response = [NoResponse EXCEPT
                                      !.success = TRUE, !.status = 200,
                                      !.from_cache = r.from_cache,
                                      !.total_activity_bq = r.total_activity_bq]]]
    /\ UNCHANGED <<store, lastWrite>>
    /\ EnvUnchanged

\* the request is over
Finish(p) ==
    /\ calc[p].pc = "done"
    /\ calc' = [calc EXCEPT ![p] = Idle]
    /\ UNCHANGED <<store, lastWrite>>
    /\ EnvUnchanged

-----------------------------------------------------------------------------
(* decay_to_date after calculate_activation returned *)

\* the order the rebuilt inventory is filled in: the isotopes of the result,
\* then those of the composition
RebuildOrder ==
    <<"Au-198", "Cu-64", "Cu-66", "Fe-55", "Fe-59", "Au-197", "Cu-63", "Cu-65",
      "Fe-54", "Fe-56", "Fe-57", "Fe-58", "Gold-Unknown", "Xx-Unknown">>

\* _calculate_initial_atoms: no atoms without a mass, and the mass number of
\* gold when the isotope's does not parse
CalculateInitialAtoms(smp, fraction, isotope) ==
    IF ~MassSet(smp) THEN 0
    ELSE LET mass_number == IF MassNumber(isotope) = 0 THEN 197 ELSE MassNumber(isotope)
         IN (((MassMilligrams(smp) * fraction) \div 1000) * AVOGADRO) \div (mass_number * 1000)

\* the inventory decay_to_date rebuilds: N = activity / lambda for the isotopes
\* the result lists, and the initial atoms of the composition's other isotopes
RebuildInventory(isotopes, composition, smp) ==
    LET listed(iso) == \E r \in isotopes : r.isotope = iso /\ r.activity_bq > 0
        composed(iso) == \E c \in composition : c.isotope = iso
        atoms(iso) ==
            IF listed(iso)
            THEN LET r == CHOOSE r \in isotopes : r.isotope = iso
                 IN (r.activity_bq * (r.half_life_s \div 100)) \div LAMBDA_LN2
            ELSE CalculateInitialAtoms(smp,
                     (CHOOSE c \in composition : c.isotope = iso).fraction, iso)
        isos == SelectSeq(RebuildOrder, LAMBDA iso : listed(iso) \/ composed(iso))
    IN [i \in 1..Len(isos) |-> [isotope |-> isos[i], atoms |-> atoms(isos[i])]]

\* decay_to_date from the result of calculate_activation on: the failure of
\* the calculation is passed on, the comparison of a target date without a
\* time zone with the result's reference time raises a TypeError that leaves
\* decay_to_date, a target date before the reference time is refused, and else
\* the rebuilt inventory is decayed to the target
DecayToDateFinish(p) ==
    /\ calc[p].pc = "returned"
    /\ calc[p].op = "decay_to_date"
    /\ LET c == calc[p]
           r == c.results
           last_irradiation_date == r.reference_time
           decay_time_seconds == c.target_date - last_irradiation_date
           composition == GetSampleComposition(sample.composition_elements,
                                               c.smp.material_type)
           decayed == DecayInventory(RebuildInventory(r.isotopes, composition, c.smp),
                                     decay_time_seconds)
           activities == CalculateActivities(decayed, c.min_fraction)
       IN calc' = [calc EXCEPT ![p] =
              IF ~r.calculation_successful
              THEN [@ EXCEPT !.pc = "done"]
              ELSE IF ~c.target_aware
                   THEN [@ EXCEPT !.pc = "done",
                                  !.response = [NoResponse EXCEPT !.raised = "TypeError"]]
              ELSE IF c.target_date < last_irradiation_date
                   THEN [@ EXCEPT !.pc = "done",
                                  !.response = [NoResponse EXCEPT
                                      !.last_irradiation_date = last_irradiation_date]]
              ELSE IF DecayInventoryRaises
                   THEN [@ EXCEPT !.pc = "done",
                                  !.response = [NoResponse EXCEPT !.raised = "Exception"]]
                   ELSE [@ EXCEPT !.pc = "done",
                                  !.response = [NoResponse EXCEPT
                                      !.success = TRUE,
                                      !.last_irradiation_date = last_irradiation_date,
                                      !.decay_time_seconds = decay_time_seconds,
                                      !.inventory = decayed,
                                      !.total_activity_bq = activities.total_activity_bq]]]
    /\ UNCHANGED <<store, lastWrite>>
    /\ EnvUnchanged

-----------------------------------------------------------------------------
(* The system: one request at a time, among edits and the passing of time *)

TargetDates == {10 * HOUR, 12 * HOUR + DAY}

\* the calls of decay_to_date: with the events of the sample and a target date
\* in the current time zone, with a target date without a time zone, and with
\* no events given
DecayToDateCalls ==
    [target_date : TargetDates, target_aware : {TRUE}, logs_given : {TRUE},
     min_activity_fraction : {1}]
        \cup [target_date : {12 * HOUR + DAY}, target_aware : {FALSE}, logs_given : {TRUE},
              min_activity_fraction : {1}]
        \cup [target_date : {12 * HOUR + DAY}, target_aware : {TRUE}, logs_given : {FALSE},
              min_activity_fraction : {1}]
        \cup [target_date : {12 * HOUR + DAY}, target_aware : {TRUE}, logs_given : {TRUE},
              min_activity_fraction : {500}]

Request(p) ==
    \/ \E use_cache \in BOOLEAN : StartView(p, use_cache)
    \/ \E a \in DecayToDateCalls :
           StartDecayToDate(p, a.target_date, a.target_aware, a.logs_given,
                            a.min_activity_fraction)
    \/ HashStep(p)
    \/ LookupStep(p)
    \/ ComposeStep(p)
    \/ LoopStep(p)
    \/ FinalStep(p)
    \/ ViewCheck(p)
    \/ SaveGet(p)
    \/ SaveCreate(p)
    \/ SaveUpdate(p)
    \/ Respond(p)
    \/ DecayToDateFinish(p)
    \/ Finish(p)

EditSample == \E c \in CompositionChoices : EditComposition(c)

EditLogs ==
    \/ \E location \in LogLocations : AddLog(location, 1, 9 * HOUR, 10 * HOUR)
    \/ \E i \in DOMAIN logs, location \in LogLocations :
           EditLog(i, location, logs[i].actual_power, logs[i].total_time_unit)
    \/ \E i \in DOMAIN logs, power \in {2, 4} :
           EditLog(i, logs[i].actual_location, power, logs[i].total_time_unit)
    \/ \E i \in DOMAIN logs, unit \in {"min", "hr"} :
           EditLog(i, logs[i].actual_location, logs[i].actual_power, unit)
    \/ \E i \in DOMAIN logs : RemoveLog(i)

EditFlux ==
    \/ \E location \in ConfigLocations, config \in FluxChoices :
           SetFluxConfig(location, config)
    \/ \E location \in ConfigLocations : DeleteFluxConfig(location)

\* the request is at one of these positions
At(p, positions) == calc[p].pc \in positions

(* An edit or a tick commutes with every step of a request that does not read
   what it changes, so it is interleaved only where the request's next read
   sees it: the logs are read by the view's check and by the fingerprint, the
   composition by the fingerprint and by the composition step, the flux
   configurations by the view, the clock by the decay to the current time
   (which a tick before the request reaches as well). *)
Next ==
    \/ Request(1)
    \/ At(1, {"idle", "hash"}) /\ EditLogs
    \/ At(1, {"idle", "compose"}) /\ EditSample
    \/ At(1, {"idle"}) /\ EditFlux
    \/ At(1, {"idle"}) /\ Tick

Spec == Init /\ [][Next]_vars

-----------------------------------------------------------------------------
(* Requests that run at once on the same sample, while the clock ticks *)

\* each request is a call of the view, with or without the cache
RaceRequest(p) ==
    \/ \E use_cache \in BOOLEAN : StartView(p, use_cache)
    \/ HashStep(p)
    \/ LookupStep(p)
    \/ ComposeStep(p)
    \/ LoopStep(p)
    \/ FinalStep(p)
    \/ ViewCheck(p)
    \/ SaveGet(p)
    \/ SaveCreate(p)
    \/ SaveUpdate(p)
    \/ Respond(p)

NextRace ==
    \/ \E p \in Procs : RaceRequest(p)
    \/ Tick

SpecRace == Init /\ [][NextRace]_vars

-----------------------------------------------------------------------------
(* The decay-chain library: one request at a time among new events and the
   passing of time, in a build without radioactivedecay and in one where its
   calls fail *)

InitSolver ==
    /\ sample = [mass |-> {1}, mass_unit |-> "g", material_type |-> "",
                 composition_elements |-> {[element |-> "Au", isotope |-> "", fraction |-> 100]}]
    /\ logs = <<[pk |-> 1, actual_location |-> "bare_rabbit", actual_power |-> 2,
                 total_time |-> 1, total_time_unit |-> "hr", irradiation_date |-> 0,
                 time_in |-> 9 * HOUR, time_out |-> 10 * HOUR]>>
    /\ nextPk = 2
    /\ fluxConfigs = ("bare_rabbit" :> [reference_power |-> 2, thermal_flux |-> 1,
                                        fast_flux |-> 1, intermediate_flux |-> 0])
    /\ store = <<>>
    /\ now \in {9 * HOUR, 12 * HOUR}
    /\ events = 0
    /\ calc = [p \in Procs |-> Idle]
    /\ lastWrite = <<>>
    /\ prev = <<>>
    /\ radioactivedecay \in {"absent", "fails"}
    /\ pyne = "absent"

NextSolver ==
    \/ Request(1)
    \/ At(1, {"idle"}) /\ EditLogs
    \/ At(1, {"idle"}) /\ Tick

SpecSolver == InitSolver /\ [][NextSolver]_vars

-----------------------------------------------------------------------------
(* The material type: one request at a time for a sample without composition
   rows, whose material type is absent, an element of the built-in table or
   another word, and for a sample with a composition row *)

MaterialSamples ==
    [mass : {{1}}, mass_unit : {"g"}, material_type : {"", "au", "gold"},
     composition_elements : {{}}]
        \cup [mass : {{1}}, mass_unit : {"g"}, material_type : {"gold"},
              composition_elements : {{[element |-> "Au", isotope |-> "", fraction |-> 100]}}]

InitMaterial ==
    /\ sample \in MaterialSamples
    /\ logs = <<[pk |-> 1, actual_location |-> "bare_rabbit", actual_power |-> 2,
                 total_time |-> 1, total_time_unit |-> "hr", irradiation_date |-> 0,
                 time_in |-> 9 * HOUR, time_out |-> 10 * HOUR]>>
    /\ nextPk = 2
    /\ fluxConfigs = ("bare_rabbit" :> [reference_power |-> 2, thermal_flux |-> 1,
                                        fast_flux |-> 1, intermediate_flux |-> 0])
    /\ store = <<>>
    /\ now = 12 * HOUR
    /\ events = 0
    /\ calc = [p \in Procs |-> Idle]
    /\ lastWrite = <<>>
    /\ prev = <<>>
    /\ radioactivedecay = "absent"
    /\ pyne = "absent"

NextMaterial ==
    \/ Request(1)
    \/ At(1, {"idle"}) /\ Tick

SpecMaterial == InitMaterial /\ [][NextMaterial]_vars

-----------------------------------------------------------------------------
(* _calculate_activities as a function of the inventory and the threshold *)

\* inventories of a stable isotope and three radioactive ones, in atoms
ActivityInventories ==
    {<<[isotope |-> "Au-197", atoms |-> a], [isotope |-> "Au-198", atoms |-> b],
       [isotope |-> "Cu-64", atoms |-> c], [isotope |-> "Fe-59", atoms |-> d]>> :
         a \in {0, 5000}, b \in {0, 1000, 1000000}, c \in {0, 1000}, d \in {0, 1000, 100000}}

\* min_activity_fraction, in thousandths
MinFractions == {0, 1, 100, 500}

InitActivities ==
    /\ sample = [mass |-> {1}, mass_unit |-> "g", material_type |-> "",
                 composition_elements |-> {}]
    /\ logs = <<>>
    /\ nextPk = 1
    /\ fluxConfigs = <<>>
    /\ store = <<>>
    /\ now = 12 * HOUR
    /\ events = 0
    /\ \E inventory \in ActivityInventories, min_fraction \in MinFractions :
           calc = [p \in Procs |->
                      IF p = 1
                      THEN [Idle EXCEPT !.pc = "activities", !.inventory = inventory,
                                        !.min_fraction = min_fraction]
                      ELSE Idle]
    /\ lastWrite = <<>>
    /\ prev = <<>>
    /\ radioactivedecay = "absent"
    /\ pyne = "absent"

\* results = self._calculate_activities(inventory, reference_time, min_fraction)
ActivitiesStep(p) ==
    /\ calc[p].pc = "activities"
    /\ LET activities == CalculateActivities(calc[p].inventory, calc[p].min_fraction)
       IN calc' = [calc EXCEPT ![p] =
              [@ EXCEPT !.pc = "returned",
                        !.ran = {"activity"},
                        !.results = [NoResult EXCEPT
                            !.fields = {"isotopes", "stable_isotopes", "total_activity_bq"},
                            !.isotopes = activities.isotopes,
                            !.stable_isotopes = activities.stable_isotopes,
                            !.total_activity_bq = activities.total_activity_bq]]]
    /\ UNCHANGED <<store, lastWrite>>
    /\ EnvUnchanged

NextActivities == ActivitiesStep(1)

SpecActivities == InitActivities /\ [][NextActivities]_vars

-----------------------------------------------------------------------------
(* _estimate_dose_rate as a function of the isotopes and their activities,
   without PyNE and with it *)

\* the entries of one or two isotopes with activities of whole curies
DoseEntries ==
    {[isotope |-> iso, activity_bq |-> ci * CURIE, atoms |-> 0, half_life_s |-> 0,
      fraction |-> 0] : iso \in {"Co-60", "Cs-137", "Au-198"}, ci \in 1..4}

DoseIsotopes == {{a, b} : a, b \in DoseEntries}

InitDose ==
    /\ sample = [mass |-> {1}, mass_unit |-> "g", material_type |-> "",
                 composition_elements |-> {}]
    /\ logs = <<>>
    /\ nextPk = 1
    /\ fluxConfigs = <<>>
    /\ store = <<>>
    /\ now = 12 * HOUR
    /\ events = 0
    /\ \E isotopes \in DoseIsotopes :
           /\ \A a, b \in isotopes : a.isotope = b.isotope => a = b
           /\ calc = [p \in Procs |->
                         IF p = 1
                         THEN [Idle EXCEPT !.pc = "dose",
                                           !.results = [NoResult EXCEPT
                                               !.fields = {"isotopes"},
                                               !.isotopes = isotopes]]
                         ELSE Idle]
    /\ lastWrite = <<>>
    /\ prev = <<>>
    /\ radioactivedecay = "absent"
    /\ pyne \in {"absent", "present"}

\* results['estimated_dose_rate_1ft'] = self._estimate_dose_rate(results['isotopes'])
DoseStep(p) ==
    /\ calc[p].pc = "dose"
    /\ calc' = [calc EXCEPT ![p] =
           [@ EXCEPT !.pc = "returned",
                     !.ran = {"dose"},
                     !.results = [@ EXCEPT
                         !.fields = @ \cup {"estimated_dose_rate_1ft"},
                         !.estimated_dose_rate_1ft =
                             EstimateDoseRate(calc[p].results.isotopes)]]]
    /\ UNCHANGED <<store, lastWrite>>
    /\ EnvUnchanged

NextDose == DoseStep(1)

SpecDose == InitDose /\ [][NextDose]_vars

-----------------------------------------------------------------------------
(* The times of day of the logs: time_in and time_out are independent
   TimeFields of one irradiation_date, so a log may end at an earlier time of
   day than it begins (an irradiation across midnight), and a log may begin
   before the log before it has ended. *)

\* a first log from 9 to 10, from 9 to 11 or from 23 to 1 o'clock, alone or
\* with a second log from 10 to half past 10 on the same day or from 9 to 10
\* on the next day
TimesLogs ==
    LET first == [pk : {1}, actual_location : {"bare_rabbit"}, actual_power : {2},
                  total_time : {1}, total_time_unit : {"hr"}, irradiation_date : {0},
                  time_in : {9 * HOUR}, time_out : {10 * HOUR, 11 * HOUR}]
                   \cup [pk : {1}, actual_location : {"bare_rabbit"}, actual_power : {2},
                         total_time : {1}, total_time_unit : {"hr"}, irradiation_date : {0},
                         time_in : {23 * HOUR}, time_out : {HOUR}]
        second == [pk : {2}, actual_location : {"bare_rabbit"}, actual_power : {2},
                   total_time : {30}, total_time_unit : {"min"}, irradiation_date : {0},
                   time_in : {10 * HOUR}, time_out : {10 * HOUR + 1800}]
                    \cup [pk : {2}, actual_location : {"bare_rabbit"}, actual_power : {2},
                          total_time : {1}, total_time_unit : {"hr"}, irradiation_date : {1},
                          time_in : {9 * HOUR}, time_out : {10 * HOUR}]
    IN {OrderBy({a}) : a \in first} \cup {OrderBy({a, b}) : a \in first, b \in second}

InitTimes ==
    /\ sample = [mass |-> {1}, mass_unit |-> "g", material_type |-> "",
                 composition_elements |-> {[element |-> "Au", isotope |-> "", fraction |-> 100]}]
    /\ logs \in TimesLogs
    /\ nextPk = 3
    /\ fluxConfigs = ("bare_rabbit" :> [reference_power |-> 2, thermal_flux |-> 1,
                                        fast_flux |-> 1, intermediate_flux |-> 0])
    /\ store = <<>>
    /\ now = DAY + 12 * HOUR
    /\ events = 0
    /\ calc = [p \in Procs |-> Idle]
    /\ lastWrite = <<>>
    /\ prev = <<>>
    /\ radioactivedecay = "absent"
    /\ pyne = "absent"

NextTimes ==
    \/ Request(1)
    \/ At(1, {"idle"}) /\ Tick

SpecTimes == InitTimes /\ [][NextTimes]_vars

-----------------------------------------------------------------------------
(* _activate_inventory and _decay_inventory as steps on an inventory: every
   inventory of the set below and every sequence of up to MaxEvents steps.
   prev keeps the last step: its kind, its arguments and the inventories
   before and after it. *)

\* one gram of gold, one gram of natural iron, half a gram each of gold and
\* copper, and an inventory of the product Au-198 alone
StepInventories ==
    {InitializeInventory({[isotope |-> "Au-197", fraction |-> 100000]},
                         [mass |-> {1}, mass_unit |-> "g"]),
     InitializeInventory({[isotope |-> pair[1], fraction |-> pair[2]] :
                              pair \in GetNaturalIsotopes("Fe")},
                         [mass |-> {1}, mass_unit |-> "g"]),
     <<[isotope |-> "Au-198", atoms |-> 1000]>>}

\* total flux and time of a step: none, one hour at the flux of the
\* configurations above, and a hundred hours at ten times that flux
StepFluxes == {0, 2, 20}

StepTimes == {0, 3600, 360000, 232891}

InitSteps ==
    /\ sample = [mass |-> {1}, mass_unit |-> "g", material_type |-> "",
                 composition_elements |-> {}]
    /\ logs = <<>>
    /\ nextPk = 1
    /\ fluxConfigs = <<>>
    /\ store = <<>>
    /\ now = 12 * HOUR
    /\ events = 0
    /\ \E inventory \in StepInventories :
           calc = [p \in Procs |->
                      IF p = 1
                      THEN [Idle EXCEPT !.pc = "steps", !.inventory = inventory]
                      ELSE Idle]
    /\ lastWrite = <<>>
    /\ prev = <<>>
    /\ radioactivedecay = "absent"
    /\ pyne = "absent"

\* inventory = self._activate_inventory(inventory, total_flux, total_time_s)
ActivateStep(p, flux, time_s) ==
    /\ calc[p].pc = "steps"
    /\ events < MaxEvents
    /\ LET after == ActivateInventory(calc[p].inventory, flux, time_s)
       IN /\ calc' = [calc EXCEPT ![p] = [@ EXCEPT !.inventory = after,
                                                   !.ran = @ \cup {"activation"}]]
          /\ prev' = <<[kind |-> "activate", flux |-> flux, time_s |-> time_s,
                        before |-> calc[p].inventory, after |-> after]>>
    /\ events' = events + 1
    /\ UNCHANGED <<sample, logs, nextPk, fluxConfigs, store, now, lastWrite, radioactivedecay, pyne>>

\* inventory = self._decay_inventory(inventory, decay_time_s)
DecayStep(p, time_s) ==
    /\ calc[p].pc = "steps"
    /\ events < MaxEvents
    /\ ~DecayInventoryRaises
    /\ LET after == DecayInventory(calc[p].inventory, time_s)
       IN /\ calc' = [calc EXCEPT ![p] = [@ EXCEPT !.inventory = after,
                                                   !.ran = @ \cup {"decay"}]]
          /\ prev' = <<[kind |-> "decay", flux |-> 0, time_s |-> time_s,
                        before |-> calc[p].inventory, after |-> after]>>
    /\ events' = events + 1
    /\ UNCHANGED <<sample, logs, nextPk, fluxConfigs, store, now, lastWrite, radioactivedecay, pyne>>

NextSteps ==
    \/ \E flux \in StepFluxes, time_s \in StepTimes : ActivateStep(1, flux, time_s)
    \/ \E time_s \in StepTimes : DecayStep(1, time_s)

SpecSteps == InitSteps /\ [][NextSteps]_vars

-----------------------------------------------------------------------------
(* The fingerprint as a function of its inputs: every sample and list of logs
   of the sets below, and one change of them.  prev keeps the kind of the
   change, the inputs before it and the fingerprints before and after it. *)

HashSamples ==
    [mass : {{}, {0}, {1}}, mass_unit : {"g", "mg"}, material_type : {"", "gold"},
     composition_elements : CompositionChoices]

\* the logs a list may hold at position pk
HashLogs(pk) ==
    [pk : {pk}, actual_location : {"bare_rabbit"}, actual_power : {2}, total_time : {1},
     total_time_unit : {"min", "hr"}, irradiation_date : {0, 1},
     time_in : {9 * HOUR}, time_out : {10 * HOUR}]

\* the lists of at most MaxLogs logs in the order of the queryset
HashLists ==
    UNION {{lst \in [1..n -> UNION {HashLogs(pk) : pk \in 1..n}] :
               /\ \A i \in 1..n : lst[i].pk = i
               /\ \A i \in 1..(n - 1) : Before(lst[i], lst[i + 1])} : n \in 0..MaxLogs}

\* the fingerprint of a sample and its logs
HashOf(smp, irradiation_logs) ==
    GenerateIrradiationHash(irradiation_logs, smp,
        GetSampleComposition(smp.composition_elements, smp.material_type))

InitHash ==
    /\ sample \in HashSamples
    /\ logs \in HashLists
    /\ nextPk = Len(logs) + 1
    /\ fluxConfigs = <<>>
    /\ store = <<>>
    /\ now = 12 * HOUR
    /\ events = 0
    /\ calc = [p \in Procs |-> Idle]
    /\ lastWrite = <<>>
    /\ prev = <<>>
    /\ radioactivedecay = "absent"
    /\ pyne = "absent"

\* one change of the inputs, and the fingerprint taken before and after it
Change(kind, new_sample, new_logs) ==
    /\ prev = <<>>
    /\ <<new_sample, new_logs>> # <<sample, logs>>
    /\ sample' = new_sample
    /\ logs' = new_logs
    /\ nextPk' = IF kind = "added" THEN nextPk + 1 ELSE nextPk
    /\ prev' = <<[kind |-> kind, sample |-> sample, logs |-> logs,
                  before |-> HashOf(sample, logs),
                  after |-> HashOf(new_sample, new_logs)]>>
    /\ UNCHANGED <<fluxConfigs, store, now, events, calc, lastWrite, radioactivedecay, pyne>>

\* the fields of a log that make its power, its duration and its timestamp,
\* and the values a change gives them
EventFields ==
    {"actual_power", "total_time", "total_time_unit", "irradiation_date", "time_in", "time_out"}

FieldValues(field) ==
    CASE field = "actual_power" -> {2, 4}
      [] field = "total_time" -> {1, 60}
      [] field = "total_time_unit" -> {"min", "hr"}
      [] field = "irradiation_date" -> {0, 1}
      [] field = "time_in" -> {8 * HOUR, 9 * HOUR}
      [] field = "time_out" -> {10 * HOUR, 11 * HOUR}

\* one field of one log is changed; the queryset keeps its order
ChangeEvent(i, field) ==
    \E value \in FieldValues(field) :
        /\ value # logs[i][field]
        /\ Change(field, sample,
                  OrderBy(Rows([logs EXCEPT ![i] = [@ EXCEPT ![field] = value]])))

ChangeComposition(c) ==
    Change("composition", [sample EXCEPT !.composition_elements = c], logs)

ChangeMaterial(m) ==
    Change("composition", [sample EXCEPT !.material_type = m], logs)

ChangeMass(m, u) ==
    Change("mass", [sample EXCEPT !.mass = m, !.mass_unit = u], logs)

AddEvent(log) ==
    /\ Len(logs) < MaxLogs
    /\ Change("added", sample, OrderBy(Rows(logs) \cup {log}))

RemoveEvent(i) ==
    Change("removed", sample, OrderBy(Rows(logs) \ {logs[i]}))

\* two logs that tie in (irradiation_date, time_in) come in the other order
ReorderEvents(i) ==
    /\ i + 1 \in DOMAIN logs
    /\ logs[i].irradiation_date = logs[i + 1].irradiation_date
    /\ logs[i].time_in = logs[i + 1].time_in
    /\ Change("reordered", sample,
              [logs EXCEPT ![i] = logs[i + 1], ![i + 1] = logs[i]])

NextHash ==
    \/ \E i \in DOMAIN logs, field \in EventFields : ChangeEvent(i, field)
    \/ \E c \in CompositionChoices : ChangeComposition(c)
    \/ \E m \in HashSamples : ChangeMaterial(m.material_type)
    \/ \E m \in HashSamples : ChangeMass(m.mass, m.mass_unit)
    \/ \E log \in HashLogs(nextPk) : AddEvent(log)
    \/ \E i \in DOMAIN logs : RemoveEvent(i)
    \/ \E i \in DOMAIN logs : ReorderEvents(i)

SpecHash == InitHash /\ [][NextHash]_vars

-----------------------------------------------------------------------------
(* Properties of the fingerprint *)

\* the resolved composition of a sample
ResolvedOf(smp) == GetSampleComposition(smp.composition_elements, smp.material_type)

\* the mass of a sample in milligrams: empty for NULL
SampleMass(smp) ==
    {CASE smp.mass_unit = "mg" -> v
       [] smp.mass_unit = "kg" -> v * 1000000
       [] OTHER -> v * 1000 : v \in smp.mass}

\* C4: changing the power, the duration (its value or its unit) or the
\* timestamp (date, start time or end time) of any single event changes the
\* fingerprint.
C4_EventChangeChangesHash ==
    \A i \in DOMAIN prev :
        prev[i].kind \in EventFields => prev[i].before # prev[i].after

\* C5 as stated: the fingerprint changes whenever the resolved composition or
\* the mass of the sample changes, or an event is added, removed or reordered.
C5_AnyChangeChangesHash ==
    \A i \in DOMAIN prev :
        (\/ ResolvedOf(prev[i].sample) # ResolvedOf(sample)
         \/ SampleMass(prev[i].sample) # SampleMass(sample)
         \/ prev[i].kind \in {"added", "removed", "reordered"})
        => prev[i].before # prev[i].after

\* C5: the fingerprint changes whenever the resolved composition of the sample
\* changes, or its mass changes from or to a mass that is set and not zero, or
\* an event is added, removed or reordered.
C5_SetMassChangeChangesHash ==
    \A i \in DOMAIN prev :
        (\/ ResolvedOf(prev[i].sample) # ResolvedOf(sample)
         \/ /\ SampleMass(prev[i].sample) # SampleMass(sample)
            /\ MassSet(prev[i].sample) \/ MassSet(sample)
         \/ prev[i].kind \in {"added", "removed", "reordered"})
        => prev[i].before # prev[i].after

\* a mass that is set was changed and the fingerprint changed with it
C5_Witness ==
    \E i \in DOMAIN prev :
        /\ prev[i].kind = "mass"
        /\ MassSet(prev[i].sample)
        /\ SampleMass(prev[i].sample) # SampleMass(sample)
        /\ prev[i].before # prev[i].after

-----------------------------------------------------------------------------
(* Properties of the sequencer *)

\* calculate_activation has returned a result to request p
Called(p) == calc[p].results.fields # {}

\* no key of the flux configurations equals the location, exactly or ignoring case
Unmatched(flux_configs, location) ==
    ~ \E k \in DOMAIN flux_configs : k = location \/ Lower(k) = Lower(location)

\* the skipped entries of the logs without a matching key, in the order of the logs
ExpectedSkipped(irradiation_logs, flux_configs) ==
    LET unmatched == SelectSeq(irradiation_logs,
                         LAMBDA log : Unmatched(flux_configs, log.actual_location))
    IN [i \in DOMAIN unmatched |-> SkippedEntry(unmatched[i], flux_configs)]

\* the end of the last irradiation the loop of request p processed
EndOfLast(p) == CHOOSE t \in calc[p].reference_time : TRUE

\* the current time request p decayed to
CurrentDate(p) == CHOOSE t \in calc[p].current_date : TRUE

\* C1: in a calculation that reaches the loop over the events, an event is
\* skipped exactly when no key of the flux configurations equals its location,
\* exactly or ignoring case; each skipped event is recorded once in the result,
\* with its reason; every other event is processed; and when an event is
\* processed the result is successful.
C1_SkipExactlyUnmatched ==
    \A p \in Procs :
        LET c == calc[p] IN
        (Called(p) /\ "inventory" \in c.ran) =>
            /\ Len(c.visited) = Len(c.irradiation_logs)
            /\ \A i \in DOMAIN c.visited :
                   (c.visited[i] = "skipped") <=>
                       Unmatched(c.flux_configs, c.irradiation_logs[i].actual_location)
            /\ c.results.skipped_irradiations =
                   ExpectedSkipped(c.irradiation_logs, c.flux_configs)
            /\ (\E i \in DOMAIN c.irradiation_logs :
                    ~Unmatched(c.flux_configs, c.irradiation_logs[i].actual_location))
                   => c.results.calculation_successful

-----------------------------------------------------------------------------
(* Properties of the cache *)

C6_SameInputsSameResults ==
    \A p, q \in Procs :
        (/\ Called(p) /\ Called(q)
         /\ calc[p].hashed_composition = calc[q].hashed_composition
         /\ calc[p].smp = calc[q].smp
         /\ calc[p].irradiation_logs = calc[q].irradiation_logs) =>
            /\ calc[p].irr_hash = calc[q].irr_hash
            /\ calc[p].results = calc[q].results

\* C7 as stated: a cache hit returns the record, tagged as derived from the
\* cache, and no step of the pipeline has run: no composition resolution, no
\* inventory, flux scaling, activation, decay, sequencing, activity or dose.
C7_HitRunsNoStep ==
    \A p \in Procs :
        (Called(p) /\ calc[p].results.from_cache) =>
            /\ "from_cache" \in calc[p].results.fields
            /\ calc[p].ran = {}

\* C7: a cache hit returns the record, tagged as derived from the cache, and
\* the only step of the pipeline that has run is the composition resolution
\* the fingerprint is taken from: no inventory, flux scaling, activation,
\* decay, sequencing, activity or dose.
C7_HitRunsOnlyComposition ==
    \A p \in Procs :
        (Called(p) /\ calc[p].results.from_cache) =>
            /\ "from_cache" \in calc[p].results.fields
            /\ calc[p].ran = {"composition"}

\* a request was answered from the cache
C7_Witness ==
    \E p \in Procs :
        /\ calc[p].pc = "returned"
        /\ calc[p].use_cache
        /\ calc[p].results.from_cache
        /\ calc[p].results.calculation_successful

\* C8: the result of a cache hit has exactly the fields of a fresh successful
\* result, and the cache tag besides.
C8_HitHasFreshFields ==
    \A p \in Procs :
        (Called(p) /\ calc[p].results.from_cache) =>
            calc[p].results.fields = FreshFields \cup {"from_cache"}

\* C9: when calculations for the same sample and fingerprint run at once, each
\* missing the cache, computing and writing, the store holds exactly one record
\* for the sample and fingerprint, the record is the result of the last
\* writer, no record is lost and no request is answered with an error.
C9_OneRecordLastWriterWins ==
    /\ \A i, j \in DOMAIN store :
           store[i].irradiation_hash = store[j].irradiation_hash => i = j
    /\ \A w \in DOMAIN lastWrite : \E i \in DOMAIN store : store[i] = lastWrite[w].row
    /\ \A p \in Procs :
           LET c == calc[p] IN
           (/\ c.pc \in {"respond", "done"}
            /\ c.results.calculation_successful
            /\ ~c.results.from_cache) =>
               /\ \E i \in DOMAIN store :
                      store[i].irradiation_hash = c.results.irradiation_hash
               /\ c.pc = "done" => c.response.success /\ c.response.status = 200

\* two requests missed the cache, computed different results and wrote them;
\* the store holds the one record of the later writer
C9_Witness ==
    \E p, q \in Procs :
        /\ p # q
        /\ calc[p].pc = "done" /\ calc[q].pc = "done"
        /\ calc[p].use_cache /\ calc[q].use_cache
        /\ ~calc[p].results.from_cache /\ ~calc[q].results.from_cache
        /\ calc[p].results.calculation_successful
        /\ calc[q].results.calculation_successful
        /\ calc[p].results.irradiation_hash = calc[q].results.irradiation_hash
        /\ calc[p].results.reference_time # calc[q].results.reference_time
        /\ Len(store) = 1
        /\ lastWrite # <<>>
        /\ lastWrite[1].by = q
        /\ store[1].reference_time = calc[q].results.reference_time

-----------------------------------------------------------------------------
(* Properties of the reference time *)

-----------------------------------------------------------------------------
(* Properties of decay_to_date *)

\* C11: decay_to_date returns a successful result for every target date at or
\* after the end of the last processed event, and the decay interval it applies
\* and reports is the target date minus the end of the last processed event.
C11_DecayFromEndOfLast ==
    \A p \in Procs :
        LET c == calc[p] IN
        (/\ c.op = "decay_to_date" /\ c.pc = "done"
         /\ c.results.calculation_successful
         /\ c.reference_time # {} /\ c.target_date >= EndOfLast(p)) =>
            /\ c.response.success
            /\ c.response.decay_time_seconds = c.target_date - EndOfLast(p)
            /\ c.response.last_irradiation_date = EndOfLast(p)

\* C12: no exception leaves calculate_activation or decay_to_date: whatever
\* the input and the failure inside, each returns a result with the success
\* flag false and a message.
C12_NoExceptionEscapes ==
    \A p \in Procs :
        LET c == calc[p] IN
        /\ c.response.raised = ""
        /\ (Called(p) /\ ~c.results.calculation_successful) =>
               c.results.error_message # ""

-----------------------------------------------------------------------------
(* Properties of the external libraries *)

\* C13: a failure of the external decay-chain solver is not fatal: the
\* simplified decay model takes over, so a calculation that processes an event
\* completes successfully, and a decay_to_date whose calculation succeeded,
\* called with the events and a target date with a time zone and not before
\* the result's reference time, succeeds.
C13_SolverFailureNotFatal ==
    \A p \in Procs :
        LET c == calc[p] IN
        /\ (Called(p) /\ "processed" \in Rows(c.visited)) =>
               c.results.calculation_successful
        /\ (/\ c.op = "decay_to_date" /\ c.pc = "done"
            /\ c.results.calculation_successful /\ c.target_aware
            /\ c.target_date >= c.results.reference_time) =>
               c.response.success

-----------------------------------------------------------------------------
(* Properties of the composition *)

\* C14: when the sample has no composition rows and its material type is
\* absent or is not an element of the nuclear data, the composition resolution
\* yields the empty mapping and calculate_activation returns a failure.
C14_NoCompositionFails ==
    \A p \in Procs :
        LET c == calc[p] IN
        (/\ Called(p)
         /\ sample.composition_elements = {}
         /\ Capitalize(c.smp.material_type) \notin DOMAIN SIMPLE_CROSS_SECTIONS) =>
            /\ c.hashed_composition = {}
            /\ c.composition = {}
            /\ ~c.results.calculation_successful

-----------------------------------------------------------------------------
(* Properties of the timeline *)

\* C15: the timeline is append-only: the i-th entry a calculation has emitted
\* has step index i, counted from 0, so the indices increase strictly; a step
\* of the calculation leaves every entry emitted before it as it was, fields
\* and inventory snapshot; and the timeline of a successful result that tracks
\* it is the sequence of the emitted entries.
C15_TimelineAppendOnly ==
    /\ [](\A p \in Procs :
             LET c == calc[p] IN
             /\ \A i \in DOMAIN c.timeline : c.timeline[i].step_number = i - 1
             /\ (/\ Called(p) /\ c.results.calculation_successful
                 /\ ~c.results.from_cache /\ c.track_timeline) =>
                    c.results.timeline = c.timeline)
    /\ [][\A p \in Procs :
             calc'[p].pc # "idle" =>
                 /\ Len(calc'[p].timeline) >= Len(calc[p].timeline)
                 /\ \A i \in DOMAIN calc[p].timeline :
                        calc'[p].timeline[i] = calc[p].timeline[i]]_vars

\* a calculation over two events a day apart emitted the initial entry, an
\* irradiation, the decay between the events, the second irradiation and the
\* current entry
C15_Witness ==
    \E p \in Procs :
        /\ calc[p].pc = "returned"
        /\ calc[p].results.calculation_successful
        /\ ~calc[p].results.from_cache
        /\ Len(calc[p].results.timeline) = 5
        /\ [i \in 1..5 |-> calc[p].results.timeline[i].step_type] =
               <<"initial", "irradiation", "decay", "irradiation", "current">>
        /\ calc[p].results.timeline[2].inventory # calc[p].results.timeline[4].inventory

-----------------------------------------------------------------------------
(* Properties of the flux configurations *)

\* C16: a flux configuration with a reference power of zero is rejected when
\* it is created or edited, so that no stored configuration has one, and
\* get_scaled_fluxes is never reached with one and never divides by zero.
C16_ZeroReferencePowerRejected ==
    /\ \A location \in DOMAIN fluxConfigs : fluxConfigs[location].reference_power # 0
    /\ \A p \in Procs :
           /\ \A location \in DOMAIN calc[p].flux_configs :
                  calc[p].flux_configs[location].reference_power # 0
           /\ calc[p].results.error_message # "float division by zero"

-----------------------------------------------------------------------------
(* Properties of the activities *)

\* lambda N summed over the isotopes of the inventory that are not stable and
\* have a positive number of atoms, up to position i
RECURSIVE SumOfActivities(_, _)
SumOfActivities(inventory, i) ==
    IF i = 0 THEN 0
    ELSE SumOfActivities(inventory, i - 1)
             + (IF inventory[i].atoms > 0 /\ GetHalfLife(inventory[i].isotope) # STABLE
                THEN (inventory[i].atoms * LAMBDA_LN2)
                         \div (GetHalfLife(inventory[i].isotope) \div 100)
                ELSE 0)

\* C17: the total activity _calculate_activities reports is the sum of
\* lambda N over every isotope that is not stable and has a positive number
\* of atoms, whatever the threshold; the threshold only removes from the
\* listed isotopes those whose share of that total is below it.
C17_TotalIgnoresThreshold ==
    \A p \in Procs :
        LET c == calc[p]
            unfiltered == CalculateActivities(c.inventory, 0)
        IN (c.pc = "returned" /\ c.ran = {"activity"}) =>
               /\ c.results.total_activity_bq = SumOfActivities(c.inventory, Len(c.inventory))
               /\ c.results.total_activity_bq = unfiltered.total_activity_bq
               /\ c.results.isotopes \subseteq unfiltered.isotopes
               /\ \A iso \in unfiltered.isotopes :
                      iso \in c.results.isotopes <=>
                          iso.activity_bq * 1000 >= c.min_fraction * c.results.total_activity_bq
               /\ c.results.stable_isotopes = unfiltered.stable_isotopes

\* the threshold removed an isotope with a positive activity from the list,
\* and its activity is part of the total
C17_Witness ==
    \E p \in Procs :
        LET c == calc[p] IN
        /\ c.pc = "returned" /\ c.ran = {"activity"}
        /\ c.min_fraction > 0
        /\ c.results.isotopes # {}
        /\ \E i \in DOMAIN c.inventory :
               /\ c.inventory[i].atoms > 0
               /\ GetHalfLife(c.inventory[i].isotope) # STABLE
               /\ \A iso \in c.results.isotopes : iso.isotope # c.inventory[i].isotope
        /\ c.results.total_activity_bq >
               SumOfActivities(c.inventory, Len(c.inventory)) - c.results.total_activity_bq
        /\ \E iso \in CalculateActivities(c.inventory, 0).isotopes :
               iso \notin c.results.isotopes

-----------------------------------------------------------------------------
(* Properties of the dose rate *)

\* the energies of all the gamma lines of an isotope, added up, in keV
RECURSIVE TotalLineEnergy(_, _)
TotalLineEnergy(lines, i) ==
    IF i = 0 THEN 0 ELSE lines[i].energy_kev + TotalLineEnergy(lines, i - 1)

\* C18: the gamma energy per decay that enters the dose-rate contribution of
\* an isotope is the total over all its gamma lines, not their intensity-
\* weighted average; for Co-60 it is about 2.5 MeV, above 2.0 and below 3.0.
C18_GammaEnergyIsTotal ==
    \A p \in Procs :
        LET c == calc[p] IN
        (c.pc = "returned" /\ c.ran = {"dose"}) =>
            \A iso \in c.results.isotopes :
                /\ GetGammaEnergies(iso.isotope) =
                       TotalLineEnergy(GammaLines(iso.isotope),
                                       Len(GammaLines(iso.isotope)))
                /\ iso.isotope = "Co-60" =>
                       /\ GetGammaEnergies(iso.isotope) > 2000
                       /\ GetGammaEnergies(iso.isotope) < 3000

\* C19: the dose rate _estimate_dose_rate gives for 1 Ci of Co-60 lies
\* between 1300 and 1500 mrem/hr, and its constant is between 530 and 570 and
\* is not 6.
C19_DoseConstantCalibrated ==
    \A p \in Procs :
        LET c == calc[p] IN
        (/\ c.pc = "returned" /\ c.ran = {"dose"}
         /\ \E iso \in c.results.isotopes :
                /\ c.results.isotopes = {iso}
                /\ iso.isotope = "Co-60"
                /\ iso.activity_bq = CURIE) =>
            /\ c.results.estimated_dose_rate_1ft >= 1300
            /\ c.results.estimated_dose_rate_1ft <= 1500
            /\ DOSE_CONSTANT >= 530 /\ DOSE_CONSTANT <= 570
            /\ DOSE_CONSTANT # 6

-----------------------------------------------------------------------------
(* Properties of the cache records *)

\* request p writes its result to the store: the result is a fresh and
\* successful one for the fingerprint of the request, every record under
\* another fingerprint stays as it is, and the result becomes a new record
\* when its fingerprint has none
WritesOwnRecord(p) ==
    LET c == calc[p]
        irr_hash == c.results.irradiation_hash
    IN /\ c.pc \in {"save_create", "save_update"}
       /\ c.results.calculation_successful
       /\ ~c.results.from_cache
       /\ irr_hash = c.irr_hash
       /\ \A i \in DOMAIN store :
              store[i].irradiation_hash # irr_hash =>
                  i \in DOMAIN store' /\ store'[i] = store[i]
       /\ Len(store') = Len(store) + (IF KeyTaken(store, irr_hash) THEN 0 ELSE 1)
       /\ \E i \in DOMAIN store' :
              /\ store'[i] = ResultRow(c.results, c.use_multigroup)
              /\ ~KeyTaken(store, irr_hash) => i = Len(store')

-----------------------------------------------------------------------------
(* Properties of the sequencer *)

\* the inventory and the reference time after the first k of the events, taken
\* in the supplied order: an event without a flux configuration changes
\* neither; at any other event the inventory is decayed over the time from the
\* end of the event processed before it to its start, when there is such an
\* event and the time is positive, and then activated for the declared
\* duration at the flux scaled to the event's power
RECURSIVE Sequenced(_, _, _, _)
Sequenced(irradiation_logs, flux_configs, initial, k) ==
    IF k = 0 THEN [inventory |-> initial, reference_time |-> {}]
    ELSE LET before == Sequenced(irradiation_logs, flux_configs, initial, k - 1)
             log == irradiation_logs[k]
             start == log.irradiation_date * DAY + log.time_in
             end == log.irradiation_date * DAY + log.time_out
             config == flux_configs[CHOOSE key \in
                           MatchFluxConfig(flux_configs, log.actual_location) : TRUE]
             flux == ((config.thermal_flux * log.actual_power) \div config.reference_power)
                       + ((config.fast_flux * log.actual_power) \div config.reference_power)
                       + ((config.intermediate_flux * log.actual_power)
                              \div config.reference_power)
             gap == start - (CHOOSE t \in before.reference_time : TRUE)
             decayed == IF before.reference_time # {} /\ gap > 0
                        THEN DecayInventory(before.inventory, gap)
                        ELSE before.inventory
         IN IF Unmatched(flux_configs, log.actual_location)
            THEN before
            ELSE [inventory |-> ActivateInventory(decayed, flux,
                                    ConvertToSeconds(log.total_time, log.total_time_unit)),
                  reference_time |-> {end}]

\* C21: in the loop over the events, taken in the supplied order, every
\* processed event other than the first processed one finds the inventory
\* decayed for exactly its start minus the end of the event processed before
\* it, and activates it for its declared duration at its scaled flux; a
\* skipped event contributes neither decay nor activation.
C21_DecayThenActivateInOrder ==
    \A p \in Procs :
        LET c == calc[p]
            expected == Sequenced(c.irradiation_logs, c.flux_configs,
                                  InitializeInventory(c.composition, c.smp),
                                  Len(c.visited))
        IN ("inventory" \in c.ran) =>
               /\ c.inventory = expected.inventory
               /\ c.reference_time = expected.reference_time
               /\ c.pc = "loop" => c.idx = Len(c.visited) + 1

\* a calculation processed two events a day apart, and the decay over the day
\* between them changed the inventory the second one activated
C21_Witness ==
    \E p \in Procs :
        LET c == calc[p] IN
        /\ c.pc = "returned"
        /\ c.results.calculation_successful
        /\ c.visited = <<"processed", "processed">>
        /\ LET first == Sequenced(c.irradiation_logs, c.flux_configs,
                                  InitializeInventory(c.composition, c.smp), 1)
               gap == Combine(c.irradiation_logs[2].irradiation_date,
                              c.irradiation_logs[2].time_in)
                          - (CHOOSE t \in first.reference_time : TRUE)
           IN /\ gap > 0
              /\ DecayInventory(first.inventory, gap) # first.inventory

\* the kinds of the entries of a timeline, in order
Kinds(timeline) == [i \in DOMAIN timeline |-> timeline[i].step_type]

\* the kinds the first k events contribute to the timeline, in the supplied
\* order, with the end of the last processed one: nothing for an event without
\* a flux configuration, and for any other event a decay entry exactly when an
\* event was processed before it and the time from that event's end to this
\* event's start is positive, followed by one irradiation entry
RECURSIVE ExpectedKinds(_, _, _)
ExpectedKinds(irradiation_logs, flux_configs, k) ==
    IF k = 0 THEN [kinds |-> <<>>, last_end |-> {}]
    ELSE LET before == ExpectedKinds(irradiation_logs, flux_configs, k - 1)
             log == irradiation_logs[k]
             start == log.irradiation_date * DAY + log.time_in
             positive == /\ before.last_end # {}
                         /\ start - (CHOOSE t \in before.last_end : TRUE) > 0
         IN IF Unmatched(flux_configs, log.actual_location)
            THEN before
            ELSE [kinds |-> before.kinds
                              \o (IF positive THEN <<"decay">> ELSE <<>>)
                              \o <<"irradiation">>,
                  last_end |-> {log.irradiation_date * DAY + log.time_out}]

\* C22: with timeline tracking the kinds of the entries of a successful
\* calculation are one initial entry, then for each processed event in the
\* supplied order an optional decay entry (present exactly when an event was
\* processed before it and the gap to its start is positive) immediately
\* followed by exactly one irradiation entry, then at most one final entry of
\* the decay to the reference date; skipped events contribute no entry.
C22_TimelineKinds ==
    \A p \in Procs :
        LET c == calc[p]
            events_kinds == ExpectedKinds(c.irradiation_logs, c.flux_configs,
                                          Len(c.irradiation_logs)).kinds
        IN (c.pc = "returned" /\ c.track_timeline /\ c.results.calculation_successful
                /\ "timeline" \in c.results.fields) =>
               \/ Kinds(c.results.timeline) = <<"initial">> \o events_kinds
               \/ Kinds(c.results.timeline) = <<"initial">> \o events_kinds \o <<"current">>

\* a tracked calculation over a skipped event and two processed events
\* returned a timeline with a decay entry and a final entry
C22_Witness ==
    \E p \in Procs :
        LET c == calc[p] IN
        /\ c.pc = "returned"
        /\ c.track_timeline
        /\ c.results.calculation_successful
        /\ "timeline" \in c.results.fields
        /\ Len(c.visited) = 2
        /\ "processed" \in {c.visited[i] : i \in DOMAIN c.visited}
        /\ "decay" \in {c.results.timeline[i].step_type : i \in DOMAIN c.results.timeline}
        /\ "current" \in {c.results.timeline[i].step_type : i \in DOMAIN c.results.timeline}

\* a tracked calculation skipped one of its two events and returned a timeline
C22_WitnessSkipped ==
    \E p \in Procs :
        LET c == calc[p] IN
        /\ c.pc = "returned"
        /\ c.track_timeline
        /\ c.results.calculation_successful
        /\ "timeline" \in c.results.fields
        /\ "skipped" \in {c.visited[i] : i \in DOMAIN c.visited}

-----------------------------------------------------------------------------
(* Properties of the activation and decay steps *)

\* the count of an isotope in an inventory, 0 when it is not a key
Count(inventory, isotope) == IF isotope \in Keys(inventory) THEN Get(inventory, isotope) ELSE 0

\* C23: starting from an inventory built from a non-negative mass and
\* non-negative fractions, after any sequence of activation steps (non-negative
\* flux and duration) and decay steps (non-negative interval) the count of
\* every isotope is at least 0.
C23_CountsNeverNegative ==
    /\ \A p \in Procs :
           \A i \in DOMAIN calc[p].inventory : calc[p].inventory[i].atoms >= 0
    /\ \A s \in DOMAIN prev :
           \A i \in DOMAIN prev[s].after : prev[s].after[i].atoms >= 0

\* an activation step produced more atoms than its target had, which left the
\* target at 0, and a decay step followed it
C23_Witness ==
    /\ \E s \in DOMAIN prev : prev[s].kind = "decay" /\ prev[s].time_s > 0
    /\ "activation" \in calc[1].ran
    /\ \E i \in DOMAIN calc[1].inventory :
           /\ calc[1].inventory[i].atoms = 0
           /\ GetCrossSectionData(calc[1].inventory[i].isotope).found

\* C24: the simplified decay model reduces each isotope by its own half-life:
\* an isotope with a known half-life that is not stable (the product Au-198)
\* is multiplied by exp(-ln 2 * t / half-life), and a stable or unknown isotope
\* (the target Au-197) is carried through unchanged; a zero interval leaves
\* every count unchanged.
C24_DecayByOwnHalfLife ==
    \A s \in DOMAIN prev :
        prev[s].kind = "decay" =>
            /\ Keys(prev[s].after) = Keys(prev[s].before)
            /\ \A i \in DOMAIN prev[s].before :
                   LET isotope == prev[s].before[i].isotope
                       n_atoms == prev[s].before[i].atoms
                       own == GetHalfLife(isotope)
                   IN Get(prev[s].after, isotope) =
                          IF own # STABLE
                          THEN (n_atoms * Exp1000(prev[s].time_s, own)) \div 1000
                          ELSE n_atoms

\* the atoms the targets of an inventory, from position i on, produce into an
\* isotope in one step
RECURSIVE ProducedInto(_, _, _, _, _)
ProducedInto(inventory, i, isotope, flux, time_s) ==
    IF i > Len(inventory) THEN 0
    ELSE LET xs == GetCrossSectionData(inventory[i].isotope)
         IN (IF xs.found /\ xs.product = isotope
             THEN Produced(xs, flux, inventory[i].atoms, time_s)
             ELSE 0)
            + ProducedInto(inventory, i + 1, isotope, flux, time_s)

\* the atoms an isotope of an inventory loses as a target in one step
ProducedFrom(inventory, isotope, flux, time_s) ==
    IF isotope \in Keys(inventory) /\ GetCrossSectionData(isotope).found
    THEN Produced(GetCrossSectionData(isotope), flux, Get(inventory, isotope), time_s)
    ELSE 0

\* an inventory with its isotopes in the opposite order
Reversed(inventory) == [i \in 1..Len(inventory) |-> inventory[Len(inventory) + 1 - i]]

\* an inventory as a mapping from its isotopes to their counts
AsMapping(inventory) == [isotope \in Keys(inventory) |-> Get(inventory, isotope)]

\* C25: within one activation step the atoms produced into a product are added
\* to that isotope's count and are still there in the step's output, also when
\* the product is itself a target of the inventory (Fe-56 produces Fe-57 while
\* Fe-57 produces Fe-58), so that the output does not depend on the order in
\* which the isotopes of the inventory are visited.
C25_ProductsRetained ==
    \A s \in DOMAIN prev :
        prev[s].kind = "activate" =>
            LET before == prev[s].before
                after == prev[s].after
                flux == prev[s].flux
                time_s == prev[s].time_s
            IN /\ \A isotope \in Keys(before) \cup Keys(after) :
                      Count(after, isotope) =
                          Max(0, Count(before, isotope)
                                     - ProducedFrom(before, isotope, flux, time_s))
                            + ProducedInto(before, 1, isotope, flux, time_s)
               /\ AsMapping(ActivateInventory(Reversed(before), flux, time_s))
                      = AsMapping(after)

\* the atoms of an inventory from position i on
RECURSIVE TotalAtoms(_, _)
TotalAtoms(inventory, i) ==
    IF i > Len(inventory) THEN 0
    ELSE inventory[i].atoms + TotalAtoms(inventory, i + 1)

\* C26: in one activation step the atoms added to a product from a target are
\* as many as the atoms removed from that target, so that the atoms produced
\* never exceed the atoms of the target at the start of the step and the step
\* never increases the total number of atoms.
C26_ProducedIsRemoved ==
    \A s \in DOMAIN prev :
        prev[s].kind = "activate" =>
            LET before == prev[s].before
                after == prev[s].after
            IN /\ \A i \in DOMAIN before :
                      LET n_atoms == before[i].atoms
                          n_produced == ProducedFrom(before, before[i].isotope,
                                                     prev[s].flux, prev[s].time_s)
                      IN /\ n_atoms - Max(0, n_atoms - n_produced) = n_produced
                         /\ n_produced <= n_atoms
               /\ TotalAtoms(after, 1) <= TotalAtoms(before, 1)

-----------------------------------------------------------------------------
(* Properties of decay_to_date *)

\* the complete inventory of request p at the reference time of its result:
\* the inventory after the last irradiation, decayed to the current date when
\* that is later
CompleteInventory(p) ==
    IF CurrentDate(p) > EndOfLast(p)
    THEN DecayInventory(calc[p].inventory, CurrentDate(p) - EndOfLast(p))
    ELSE calc[p].inventory

\* the total activity at the target of decay_to_date when every radioactive
\* isotope of the complete inventory is carried to the target, whatever its
\* share of the activity
TotalOfComplete(p) ==
    LET c == calc[p]
        every == CalculateActivities(CompleteInventory(p), 0).isotopes
        decayed == DecayInventory(
                       RebuildInventory(every, c.composition, c.smp),
                       c.target_date - c.results.reference_time)
    IN CalculateActivities(decayed, c.min_fraction).total_activity_bq

\* C27: the total activity decay_to_date reports at the target instant is the
\* total activity of the complete inventory after the irradiations, decayed to
\* that instant: the isotopes whose share of the activity was below the
\* minimum fraction in the intermediate calculation still contribute to it.
C27_TotalOfCompleteInventory ==
    \A p \in Procs :
        LET c == calc[p] IN
        (c.op = "decay_to_date" /\ c.pc = "done" /\ c.response.success) =>
            c.response.total_activity_bq = TotalOfComplete(p)

-----------------------------------------------------------------------------
(* Properties of the cache under concurrent edits *)

\* the composition part of the fingerprint of a composition
Summary(composition) == {<<c.isotope, c.fraction>> : c \in composition}

\* C28: under any interleaving of a calculation with concurrent edits of the
\* composition of the same sample, the result written to the cache under a
\* fingerprint was computed from exactly the composition that the fingerprint
\* summarizes.
C28_CachedUnderOwnFingerprint ==
    \A i \in DOMAIN store :
        \A j \in DOMAIN store[i].computed_from :
            store[i].irradiation_hash.composition
                = Summary(store[i].computed_from[j].composition)

\* C29: a cache hit never returns a result computed with flux configurations,
\* a cross-section mode or a minimum activity fraction other than those of the
\* current request: after the flux configuration of a location is edited, a
\* cached calculation for an unchanged sample and unchanged events does not
\* return the result computed with the old flux values.
C29_CacheHitSameParameters ==
    \A p \in Procs :
        LET c == calc[p] IN
        (Called(p) /\ c.results.from_cache) =>
            c.results.computed_with
                = ComputedWith(c.irradiation_logs, c.flux_configs, c.use_multigroup,
                               c.min_fraction)

-----------------------------------------------------------------------------
(* Properties of the reference time *)

\* the positions of the processed events among the events visited so far
Processed(p) == {i \in DOMAIN calc[p].visited : calc[p].visited[i] = "processed"}

\* the start and the end of the event at position i of the events of request p
StartOf(p, i) == Combine(calc[p].irradiation_logs[i].irradiation_date, calc[p].irradiation_logs[i].time_in)

EndOf(p, i) == Combine(calc[p].irradiation_logs[i].irradiation_date, calc[p].irradiation_logs[i].time_out)

\* C30: for every processed event the end that becomes the new reference time
\* is not earlier than the start of that event, so that over events sorted by
\* date and start time the reference time never moves backward and the
\* timestamps of the timeline never decrease.
C30_ReferenceTimeMonotone ==
    \A p \in Procs :
        LET c == calc[p] IN
        ("inventory" \in c.ran) =>
            /\ \A i \in Processed(p) : EndOf(p, i) >= StartOf(p, i)
            /\ \A i, j \in Processed(p) : i < j => EndOf(p, i) <= EndOf(p, j)
            /\ \A i, j \in DOMAIN c.timeline :
                   i < j => c.timeline[i].step_datetime <= c.timeline[j].step_datetime

====
